---- MODULE Spec2Model ----
(***************************************************************************)
(* A model of the statSearch box score pipeline: the batch validator, the   *)
(* best-effort persistence sink and the multi-source fallback controller    *)
(* of boxscore_controller.py.                                               *)
(***************************************************************************)
EXTENDS Integers, Sequences, FiniteSets, TLC

VARIABLES
    pc,            \* position of the current fetch_boxscores call
    calls,         \* number of fetch_boxscores calls started so far
    force_source,  \* argument of the current call
    adapters,      \* what each provider adapter does when invoked in this call
    failAt,        \* the persistence step the file system refuses in this call
    sources,       \* the (possibly collapsed) provider list of the call
    idx,           \* 1-based position of the for loop in sources
    result,        \* the result dict of the call
    invoked,       \* adapters invoked so far in this call, in order
    persisted,     \* persist_boxscores invocations of this call, in order
    disk,          \* the data/ directory tree
    vbatch,        \* validator harness: the batch handed to validate_boxscores
    vpc,           \* validator harness: "ready" before the call, "done" after
    vresult,       \* validator harness: the value validate_boxscores returned
    q,             \* threshold evaluator harness: arguments, position and result
    api,           \* the web API: the request being served, its response, its calls
    mrg,           \* merge harness: roster, stat records, date, position and rows
    nz,            \* name normalizer harness: the name, position and key
    fan,           \* fantasy service: cache, disk and the calls in progress
    out            \* sys.stdout and the request handlers that redirect it

vars == <<pc, calls, force_source, adapters, failAt, sources, idx, result,
          invoked, persisted, disk, vbatch, vpc, vresult, q, api, mrg, nz, fan, out>>

ctlVars == <<pc, calls, force_source, adapters, failAt, sources, idx, result,
             invoked, persisted, disk>>

valVars == <<vbatch, vpc, vresult>>

\* the controller's variables other than the disk
ctlLocals == <<pc, calls, force_source, adapters, failAt, sources, idx, result,
               invoked, persisted>>

\* a harness that takes no part in the specification at hand
Off == [pc |-> "off"]

\* everything but the state of fetch_boxscores
nonCtlVars == <<valVars, q, api, mrg, nz, fan, out>>

-----------------------------------------------------------------------------
(* Bounds of the model *)

\* number of fetch_boxscores calls in one behaviour
MaxCalls == 2

\* longest batch handed to the validator harness
MaxBatchLen == 2

\* requests served in one run of the web API
MaxRequests == 2

-----------------------------------------------------------------------------
(* Program constants *)

\* upper bounds of validate_boxscores
PtsMax == 100
RebMax == 40
AstMax == 30

\* Python's None
NoneVal == "None"

date_str == "2025-06-05"

required_fields == <<"game_id", "game_date", "player", "team", "pts", "reb", "ast">>

\* Python truthiness of an Optional[str]
Truthy(s) == s # NoneVal /\ s # ""

-----------------------------------------------------------------------------
(* validate_boxscores *)

HasRequiredFields(box) ==
    \A k \in 1..Len(required_fields) : required_fields[k] \in DOMAIN box

\* validate_boxscores with an incomplete record skipped instead of rejected
RECURSIVE validate_from_filtering(_, _)
validate_from_filtering(boxscores, k) ==
    IF k > Len(boxscores) THEN TRUE
    ELSE LET box == boxscores[k] IN
         IF ~HasRequiredFields(box) THEN validate_from_filtering(boxscores, k + 1)
         ELSE IF ~(0 <= box["pts"] /\ box["pts"] <= PtsMax) THEN FALSE
         ELSE IF ~(0 <= box["reb"] /\ box["reb"] <= RebMax) THEN FALSE
         ELSE IF ~(0 <= box["ast"] /\ box["ast"] <= AstMax) THEN FALSE
         ELSE validate_from_filtering(boxscores, k + 1)

\* validate_boxscores with the upper bounds exclusive
RECURSIVE validate_from_exclusive(_, _)
validate_from_exclusive(boxscores, k) ==
    IF k > Len(boxscores) THEN TRUE
    ELSE LET box == boxscores[k] IN
         IF ~HasRequiredFields(box) THEN FALSE
         ELSE IF ~(0 <= box["pts"] /\ box["pts"] < PtsMax) THEN FALSE
         ELSE IF ~(0 <= box["reb"] /\ box["reb"] < RebMax) THEN FALSE
         ELSE IF ~(0 <= box["ast"] /\ box["ast"] < AstMax) THEN FALSE
         ELSE validate_from_exclusive(boxscores, k + 1)

\* the for loop of validate_boxscores, from record k on
RECURSIVE validate_from(_, _)
validate_from(boxscores, k) ==
    IF k > Len(boxscores) THEN TRUE
    ELSE LET box == boxscores[k] IN
         IF ~HasRequiredFields(box) THEN FALSE
         ELSE IF ~(0 <= box["pts"] /\ box["pts"] <= PtsMax) THEN FALSE
         ELSE IF ~(0 <= box["reb"] /\ box["reb"] <= RebMax) THEN FALSE
         ELSE IF ~(0 <= box["ast"] /\ box["ast"] <= AstMax) THEN FALSE
         ELSE validate_from(boxscores, k + 1)

validate_boxscores(boxscores) ==
    IF boxscores = <<>> THEN FALSE ELSE validate_from(boxscores, 1)

-----------------------------------------------------------------------------
(* Records and batches *)

StatRecord(gid, player, src, p, r, a) ==
    [game_id |-> gid, game_date |-> date_str, player |-> player, team |-> "LAL",
     pts |-> p, reb |-> r, ast |-> a, source |-> src]

Without(box, field) == [f \in (DOMAIN box) \ {field} |-> box[f]]

\* stat lines around each bound, one stat at a time, and the upper corner
StatLines ==
    {<<p, 0, 0>> : p \in {-1, 0, PtsMax, PtsMax + 1, 150}}
    \cup {<<0, r, 0>> : r \in {-1, RebMax, RebMax + 1}}
    \cup {<<0, 0, a>> : a \in {-1, AstMax, AstMax + 1}}
    \cup {<<PtsMax, RebMax, AstMax>>}

CompleteRecords == {StatRecord("g1", "p1", "NBA_API", s[1], s[2], s[3]) : s \in StatLines}

IncompleteRecords ==
    {Without(StatRecord("g1", "p1", "NBA_API", s[1], s[2], s[3]), required_fields[k]) :
        s \in {<<PtsMax, RebMax, AstMax>>, <<150, 0, 0>>}, k \in 1..Len(required_fields)}

HarnessRecords == CompleteRecords \cup IncompleteRecords

SeqsUpTo(S, n) == UNION {[1..m -> S] : m \in 0..n}

HarnessBatches == SeqsUpTo(HarnessRecords, MaxBatchLen)

-----------------------------------------------------------------------------
(* Provider adapters: black boxes that raise or return a batch *)

ProviderOrder_reversed == <<"ESPN_API", "NBA_API">>

\* the fallback order
ProviderOrder == <<"NBA_API", "ESPN_API">>

Providers == {ProviderOrder[k] : k \in 1..Len(ProviderOrder)}

Raises(e) == [kind |-> "raise", exc |-> e, batch |-> <<>>]

Returns(b) == [kind |-> "return", exc |-> NoneVal, batch |-> b]

GoodRecord1(name) == StatRecord("g1", "p1", name, PtsMax, 0, AstMax)
GoodRecord2(name) == StatRecord("g2", "p2", name, 0, RebMax, 0)
OutOfBoundsRecord(name) == StatRecord("g1", "p3", name, 150, 0, 0)
NoAstRecord(name) == Without(GoodRecord2(name), "ast")

\* raise, empty batch, valid batch, batch with pts=150, batch lacking ast
AdapterOutcomes(name) ==
    { Raises("timed out"),
      Returns(<<>>),
      Returns(<<GoodRecord1(name), GoodRecord2(name)>>),
      Returns(<<GoodRecord1(name), OutOfBoundsRecord(name)>>),
      Returns(<<GoodRecord1(name), NoAstRecord(name)>>) }

AdapterChoices ==
    {f \in [Providers -> UNION {AdapterOutcomes(n) : n \in Providers}] :
        \A n \in Providers : f[n] \in AdapterOutcomes(n)}

\* None, the empty string, the known names and two unknown ones
ForceSourceValues == {NoneVal, "", "NBA_API", "ESPN_API", "BALLDONTLIE", "nba_api"}

-----------------------------------------------------------------------------
(* persist_boxscores *)

FailSteps == {"none", "mkdir", "raw", "csv", "logread", "logwrite"}

EmptyDisk == [dirs |-> FALSE, raw |-> <<>>, csv |-> <<>>, log_exists |-> FALSE, logs |-> <<>>]

games_found(boxscores) == Cardinality({boxscores[k]["game_id"] : k \in 1..Len(boxscores)})

\* the try block of persist_boxscores: the disk it leaves and the exception, if any
persist_try(boxscores, source, day, fail, d) ==
    IF fail = "mkdir" THEN [disk |-> d, exc |-> "OSError: mkdir"]
    ELSE LET d1 == [d EXCEPT !.dirs = TRUE] IN
    IF fail = "raw" THEN [disk |-> d1, exc |-> "OSError: raw"]
    ELSE LET d2 == [d1 EXCEPT !.raw = Append(@, [source |-> source, date |-> day,
                                                  boxscores |-> boxscores])] IN
    IF fail = "csv" THEN [disk |-> d2, exc |-> "OSError: csv"]
    ELSE LET d3 == [d2 EXCEPT !.csv = <<boxscores>>]
             log_entry == [date |-> day, source |-> source,
                           games_found |-> games_found(boxscores),
                           players_found |-> Len(boxscores),
                           status |-> "success"]
         IN
    IF d3.log_exists /\ fail = "logread" THEN [disk |-> d3, exc |-> "OSError: logread"]
    ELSE IF fail = "logwrite" THEN [disk |-> d3, exc |-> "OSError: logwrite"]
    ELSE [disk |-> [d3 EXCEPT !.logs = Append(@, log_entry), !.log_exists = TRUE],
          exc |-> NoneVal]

\* persist_boxscores letting the exception of a failed step out
persist_boxscores_raising(boxscores, source, day, fail, d) ==
    persist_try(boxscores, source, day, fail, d)

\* except Exception: print a note and return normally
persist_boxscores(boxscores, source, day, fail, d) ==
    [disk |-> persist_try(boxscores, source, day, fail, d).disk, exc |-> NoneVal]

-----------------------------------------------------------------------------
(* fetch_boxscores *)

\* the provider list with the forced source moved to the front, not collapsed
select_sources_forced_first(force) ==
    IF Truthy(force)
    THEN SelectSeq(ProviderOrder, LAMBDA n : n = force)
         \o SelectSeq(ProviderOrder, LAMBDA n : n # force)
    ELSE ProviderOrder

\* the provider list falling back to every provider when the name matches none
select_sources_fallback(force) ==
    IF Truthy(force) /\ force \in Providers
    THEN SelectSeq(ProviderOrder, LAMBDA n : n = force)
    ELSE ProviderOrder

\* the provider list with every provider listed twice: a failure is retried
select_sources_with_retry(force) ==
    IF Truthy(force)
    THEN SelectSeq(ProviderOrder \o ProviderOrder, LAMBDA n : n = force)
    ELSE ProviderOrder \o ProviderOrder

\* the list of providers the call iterates over
select_sources(force) ==
    IF Truthy(force)
    THEN SelectSeq(ProviderOrder, LAMBDA n : n = force)
    ELSE ProviderOrder

initial_result ==
    [success |-> FALSE, date |-> date_str, game_id |-> NoneVal, source |-> NoneVal,
     boxscores |-> <<>>, errors |-> <<>>]

error_msg(source_name, e) == source_name \o " error: " \o e

all_failed_msg == "All sources failed to return valid box scores"

\* the try block persisting whatever the adapter returned, before validating it
try_body_persist_first(source_name, outcome, fail, d) ==
    IF outcome.kind = "raise"
    THEN [exc |-> outcome.exc, valid |-> FALSE, boxscores |-> <<>>, disk |-> d,
          persist_calls |-> <<>>]
    ELSE LET boxscores == outcome.batch
             p == persist_boxscores(boxscores, source_name, date_str, fail, d)
         IN [exc |-> p.exc,
             valid |-> p.exc = NoneVal /\ boxscores # <<>> /\ validate_boxscores(boxscores),
             boxscores |-> boxscores, disk |-> p.disk,
             persist_calls |-> <<[source |-> source_name, boxscores |-> boxscores]>>]

\* the try block of one loop iteration, up to the point where the result is set
try_body(source_name, outcome, fail, d) ==
    IF outcome.kind = "raise"
    THEN [exc |-> outcome.exc, valid |-> FALSE, boxscores |-> <<>>, disk |-> d,
          persist_calls |-> <<>>]
    ELSE LET boxscores == outcome.batch IN
         IF boxscores # <<>> /\ validate_boxscores(boxscores)
         THEN LET p == persist_boxscores(boxscores, source_name, date_str, fail, d) IN
              [exc |-> p.exc, valid |-> p.exc = NoneVal, boxscores |-> boxscores,
               disk |-> p.disk,
               persist_calls |-> <<[source |-> source_name, boxscores |-> boxscores]>>]
         ELSE [exc |-> NoneVal, valid |-> FALSE, boxscores |-> boxscores, disk |-> d,
               persist_calls |-> <<>>]

\* the winning branch without its return statement: the loop goes on
on_valid_no_return(res, source_name, boxscores) ==
    [result |-> [res EXCEPT !.success = TRUE, !.source = source_name,
                            !.boxscores = boxscores],
     pc |-> "loop"]

\* the winning branch leaving the source of the result unset
on_valid_unnamed(res, source_name, boxscores) ==
    [result |-> [res EXCEPT !.success = TRUE, !.boxscores = boxscores],
     pc |-> "returned"]

\* the winning branch: fill in the result and return it
on_valid(res, source_name, boxscores) ==
    [result |-> [res EXCEPT !.success = TRUE, !.source = source_name,
                            !.boxscores = boxscores],
     pc |-> "returned"]

\* the else branch: only a print, the loop goes on
on_invalid(res, source_name) == [result |-> res, pc |-> "loop"]

\* the except clause letting the exception out of fetch_boxscores
on_exception_reraise(res, source_name, e) == [result |-> res, pc |-> "raised"]

\* the except clause: record the error, the loop goes on
on_exception(res, source_name, e) ==
    [result |-> [res EXCEPT !.errors = Append(@, error_msg(source_name, e))],
     pc |-> "loop"]

\* the final failure with the collected errors dropped
on_exhausted_reset(res) == [res EXCEPT !.errors = <<all_failed_msg>>]

\* after the loop: every source failed
on_exhausted(res) == [res EXCEPT !.errors = Append(@, all_failed_msg)]

IdleAdapters == [n \in Providers |-> Returns(<<>>)]

CtlIdle ==
    /\ pc = "idle"
    /\ force_source = NoneVal
    /\ adapters = IdleAdapters
    /\ failAt = "none"
    /\ sources = <<>>
    /\ idx = 1
    /\ result = initial_result
    /\ invoked = <<>>
    /\ persisted = <<>>

Init ==
    /\ CtlIdle
    /\ calls = 0
    /\ disk = EmptyDisk
    /\ vbatch = <<>> /\ vpc = "done" /\ vresult = FALSE
    /\ q = Off /\ api = Off /\ mrg = Off
    /\ nz = Off /\ fan = Off /\ out = Off

\* fetch_boxscores is entered: provider list and empty result
Call ==
    /\ pc = "idle"
    /\ calls < MaxCalls
    /\ \E force \in ForceSourceValues, a \in AdapterChoices, fail \in FailSteps :
        /\ force_source' = force
        /\ adapters' = a
        /\ failAt' = fail
        /\ sources' = select_sources(force)
    /\ calls' = calls + 1
    /\ idx' = 1
    /\ result' = initial_result
    /\ invoked' = <<>>
    /\ persisted' = <<>>
    /\ pc' = "loop"
    /\ UNCHANGED <<disk, nonCtlVars>>

\* one iteration of the for loop over sources
TryProvider ==
    /\ pc = "loop"
    /\ idx <= Len(sources)
    /\ LET source_name == sources[idx]
           t == try_body(source_name, adapters[source_name], failAt, disk)
           step == IF t.exc # NoneVal THEN on_exception(result, source_name, t.exc)
                   ELSE IF t.valid THEN on_valid(result, source_name, t.boxscores)
                   ELSE on_invalid(result, source_name)
       IN /\ invoked' = Append(invoked, source_name)
          /\ persisted' = persisted \o t.persist_calls
          /\ disk' = t.disk
          /\ result' = step.result
          /\ pc' = step.pc
          /\ idx' = IF step.pc = "loop" THEN idx + 1 ELSE idx
    /\ UNCHANGED <<calls, force_source, adapters, failAt, sources, nonCtlVars>>

\* the loop ran out of sources
Exhausted ==
    /\ pc = "loop"
    /\ idx > Len(sources)
    /\ result' = on_exhausted(result)
    /\ pc' = "returned"
    /\ UNCHANGED <<calls, force_source, adapters, failAt, sources, idx, invoked,
                   persisted, disk, nonCtlVars>>

\* the caller has the result (or the exception); the next call may start
Return ==
    /\ pc \in {"returned", "raised"}
    /\ pc' = "idle"
    /\ force_source' = NoneVal
    /\ adapters' = IdleAdapters
    /\ failAt' = "none"
    /\ sources' = <<>>
    /\ idx' = 1
    /\ result' = initial_result
    /\ invoked' = <<>>
    /\ persisted' = <<>>
    /\ UNCHANGED <<calls, disk, nonCtlVars>>

Next == Call \/ TryProvider \/ Exhausted \/ Return

Spec == Init /\ [][Next]_vars

-----------------------------------------------------------------------------
(* The validator on its own *)

InitValidate ==
    /\ vbatch \in HarnessBatches
    /\ vpc = "ready"
    /\ vresult = FALSE
    /\ CtlIdle
    /\ calls = 0
    /\ disk = EmptyDisk
    /\ q = Off /\ api = Off /\ mrg = Off
    /\ nz = Off /\ fan = Off /\ out = Off

Validate ==
    /\ vpc = "ready"
    /\ vpc' = "done"
    /\ vresult' = validate_boxscores(vbatch)
    /\ UNCHANGED <<vbatch, ctlVars, q, api, mrg, nz, fan, out>>

NextValidate == Validate

SpecValidate == InitValidate /\ [][NextValidate]_vars

-----------------------------------------------------------------------------
(* Claims about validate_boxscores, checked under SpecValidate *)

Lacks(box) ==
    \E f \in {"game_id", "game_date", "player", "team", "pts", "reb", "ast"} :
        f \notin DOMAIN box

\* C8: validate_boxscores returns false for an empty batch and for every batch
\* in which at least one record lacks a required field, however many other
\* records are complete and in bounds.
C8_WholeBatchRejected ==
    (vpc = "done" /\ (vbatch = <<>> \/ \E k \in 1..Len(vbatch) : Lacks(vbatch[k])))
        => vresult = FALSE

\* a complete in-bounds record followed by one that lacks only ast: rejected
C8_Witness ==
    /\ vpc = "done"
    /\ Len(vbatch) = 2
    /\ ~Lacks(vbatch[1])
    /\ vbatch[1]["pts"] = 100 /\ vbatch[1]["reb"] = 40 /\ vbatch[1]["ast"] = 30
    /\ DOMAIN vbatch[2] = (DOMAIN vbatch[1]) \ {"ast"}
    /\ vbatch[2]["pts"] = 100
    /\ vresult = FALSE

WithinBounds(box) ==
    /\ 0 <= box["pts"] /\ box["pts"] <= 100
    /\ 0 <= box["reb"] /\ box["reb"] <= 40
    /\ 0 <= box["ast"] /\ box["ast"] <= 30

\* C9: for a non-empty batch of complete records, validate_boxscores returns
\* true if and only if every record has pts in [0,100], reb in [0,40] and
\* ast in [0,30].
C9_BoundsDecide ==
    (vpc = "done" /\ vbatch # <<>> /\ \A k \in 1..Len(vbatch) : ~Lacks(vbatch[k]))
        => (vresult = TRUE <=> \A k \in 1..Len(vbatch) : WithinBounds(vbatch[k]))

\* a record on all three upper bounds followed by one with pts = 101: rejected
C9_Witness ==
    /\ vpc = "done"
    /\ Len(vbatch) = 2
    /\ ~Lacks(vbatch[1]) /\ ~Lacks(vbatch[2])
    /\ vbatch[1]["pts"] = 100 /\ vbatch[1]["reb"] = 40 /\ vbatch[1]["ast"] = 30
    /\ vbatch[2]["pts"] = 101 /\ vbatch[2]["reb"] = 0 /\ vbatch[2]["ast"] = 0
    /\ vresult = FALSE

\* a batch whose records all sit on the upper bounds is accepted
C9_AcceptedOnBounds ==
    /\ vpc = "done"
    /\ Len(vbatch) = 2
    /\ \A k \in 1..2 : ~Lacks(vbatch[k]) /\ vbatch[k]["pts"] = 100
                       /\ vbatch[k]["reb"] = 40 /\ vbatch[k]["ast"] = 30
    /\ vresult = TRUE

-----------------------------------------------------------------------------
(* Claims about fetch_boxscores, checked under Spec *)

\* the adapter of provider n returns a non-empty batch that passes validation
Wins(n) ==
    /\ adapters[n].kind = "return"
    /\ adapters[n].batch # <<>>
    /\ validate_boxscores(adapters[n].batch)

PriorityOrder == <<"NBA_API", "ESPN_API">>

\* C1: with no forced source, a successful result names the earliest provider
\* of the order NBA_API, ESPN_API whose batch is non-empty and valid.
C1_EarliestValidProviderWins ==
    (pc = "returned" /\ ~Truthy(force_source) /\ result.success)
        => \E k \in 1..Len(PriorityOrder) :
              /\ result.source = PriorityOrder[k]
              /\ Wins(PriorityOrder[k])
              /\ \A j \in 1..(k - 1) : ~Wins(PriorityOrder[j])

\* both providers would return valid data and the first one is the source
C1_Witness ==
    /\ pc = "returned"
    /\ force_source = NoneVal
    /\ Wins("NBA_API") /\ Wins("ESPN_API")
    /\ result.success
    /\ result.source = "NBA_API"

\* C2: once a provider returns a non-empty valid batch the call returns with
\* success, that provider as source and exactly its batch as records; no
\* later provider is invoked and nothing of another provider is merged in.
C2_FirstMatchReturns ==
    \A k \in 1..Len(invoked) :
        Wins(invoked[k]) =>
            /\ k = Len(invoked)
            /\ pc = "returned"
            /\ result.success
            /\ result.source = invoked[k]
            /\ result.boxscores = adapters[invoked[k]].batch

\* both providers hold valid data; only the first was invoked
C2_Witness ==
    /\ pc = "returned"
    /\ force_source = NoneVal
    /\ Wins("NBA_API") /\ Wins("ESPN_API")
    /\ invoked = <<"NBA_API">>
    /\ result.boxscores = adapters["NBA_API"].batch
    /\ Len(result.boxscores) = 2

\* providers that were tried in this call and did not win
Losers == Len(invoked) - (IF result.success THEN 1 ELSE 0)

\* C3: every provider that is tried and does not win contributes one entry to
\* errors, whether it raised, returned an empty batch or an invalid one; a
\* successful result carries exactly one entry per provider that lost.
C3_EveryLoserLeavesAnError ==
    pc = "returned" =>
        /\ Len(result.errors) >= Losers
        /\ result.success => Len(result.errors) = Losers

\* C4: an adapter's exception never leaves fetch_boxscores: one message naming
\* the provider is appended to errors and the next provider is still invoked.
C4_AdapterExceptionContained ==
    /\ pc # "raised"
    /\ pc = "returned" =>
        \A k \in 1..Len(invoked) :
            adapters[invoked[k]].kind = "raise" =>
                /\ Cardinality({j \in 1..Len(result.errors) :
                        result.errors[j] =
                            invoked[k] \o " error: " \o adapters[invoked[k]].exc}) = 1
                /\ k < Len(sources) =>
                        (Len(invoked) > k /\ invoked[k + 1] = sources[k + 1])

\* the first provider raised and the second one was invoked and won
C4_Witness ==
    /\ pc = "returned"
    /\ adapters["NBA_API"].kind = "raise"
    /\ invoked = <<"NBA_API", "ESPN_API">>
    /\ result.success
    /\ result.source = "ESPN_API"
    /\ result.errors = <<"NBA_API error: timed out">>

\* C5: when every provider of the list was tried and none returned a
\* non-empty valid batch, the result is success=false, source=None, no
\* records, and errors holds every error collected from the failed attempts.
C5_ExhaustionIsEmptyFailure ==
    (pc = "returned" /\ \A k \in 1..Len(sources) : ~Wins(sources[k]))
        => /\ result.success = FALSE
           /\ result.source = NoneVal
           /\ result.boxscores = <<>>
           /\ result.errors # <<>>
           /\ \A k \in 1..Len(sources) :
                adapters[sources[k]].kind = "raise" =>
                    \E j \in 1..Len(result.errors) :
                        result.errors[j] =
                            sources[k] \o " error: " \o adapters[sources[k]].exc

\* the first provider raised, the second returned an invalid batch
C5_Witness ==
    /\ pc = "returned"
    /\ sources = <<"NBA_API", "ESPN_API">>
    /\ adapters["NBA_API"].kind = "raise"
    /\ adapters["ESPN_API"].kind = "return"
    /\ adapters["ESPN_API"].batch # <<>>
    /\ invoked = sources
    /\ ~result.success
    /\ Len(result.errors) = 2

KnownNames == {"NBA_API", "ESPN_API"}

NoAdapterRunEmptyFailure ==
    /\ invoked = <<>>
    /\ pc = "returned" =>
        /\ result.success = FALSE
        /\ result.boxscores = <<>>
        /\ result.errors # <<>>

\* C6 as stated: a forced source that is not a known provider name invokes no
\* adapter and yields success=false, no records and an error.
C6_UnknownForcedSourceRunsNothing ==
    (pc \in {"loop", "returned"} /\ force_source # NoneVal
        /\ force_source \notin KnownNames)
        => NoAdapterRunEmptyFailure

\* C6 amended: a non-empty forced source that is not a known provider name
\* invokes no adapter and yields success=false, no records and an error.
C6_NonEmptyUnknownForcedSourceRunsNothing ==
    (pc \in {"loop", "returned"} /\ force_source # NoneVal /\ force_source # ""
        /\ force_source \notin KnownNames)
        => NoAdapterRunEmptyFailure

\* an unknown name was forced while both providers held valid data
C6_Witness ==
    /\ pc = "returned"
    /\ force_source = "BALLDONTLIE"
    /\ Wins("NBA_API") /\ Wins("ESPN_API")
    /\ invoked = <<>>
    /\ ~result.success
    /\ result.errors = <<"All sources failed to return valid box scores">>

\* C7: a forced source that is a known provider name invokes only that
\* provider; if it does not win the result is a failure, and a successful
\* result has the forced source as its source.
C7_ForcedSourceOnly ==
    (pc \in {"loop", "returned"} /\ force_source \in KnownNames)
        => /\ Len(invoked) <= 1
           /\ \A k \in 1..Len(invoked) : invoked[k] = force_source
           /\ (pc = "returned" /\ ~Wins(force_source)) => ~result.success
           /\ (pc = "returned" /\ result.success) => result.source = force_source

\* the forced provider failed while the other one held valid data
C7_Witness ==
    /\ pc = "returned"
    /\ force_source = "ESPN_API"
    /\ Wins("NBA_API") /\ ~Wins("ESPN_API")
    /\ invoked = <<"ESPN_API">>
    /\ ~result.success

\* the messages of the first n providers of the list, those that raise
RECURSIVE RaisedMessages(_)
RaisedMessages(n) ==
    IF n = 0 THEN <<>>
    ELSE RaisedMessages(n - 1) \o
         (IF adapters[sources[n]].kind = "raise"
          THEN <<sources[n] \o " error: " \o adapters[sources[n]].exc>>
          ELSE <<>>)

Winners == {k \in 1..Len(sources) : Wins(sources[k])}

FirstWinner == CHOOSE k \in Winners : \A j \in Winners : k <= j

\* the result as the adapter outcomes alone determine it
ResultOfOutcomes ==
    IF Winners = {}
    THEN [success |-> FALSE, source |-> NoneVal, boxscores |-> <<>>,
          errors |-> RaisedMessages(Len(sources)) \o
                     <<"All sources failed to return valid box scores">>]
    ELSE [success |-> TRUE, source |-> sources[FirstWinner],
          boxscores |-> adapters[sources[FirstWinner]].batch,
          errors |-> RaisedMessages(FirstWinner - 1)]

\* C10: a failure at any step of persist_boxscores never reaches the caller
\* of fetch_boxscores and never changes the result: success, source, records
\* and errors are those the adapter outcomes determine, whatever step failed.
C10_PersistenceNeverChangesResult ==
    /\ pc # "raised"
    /\ pc = "returned" =>
        /\ result.success = ResultOfOutcomes.success
        /\ result.source = ResultOfOutcomes.source
        /\ result.boxscores = ResultOfOutcomes.boxscores
        /\ result.errors = ResultOfOutcomes.errors

\* the log of an earlier call could not be read, after the raw snapshot and
\* the CSV were written, and the call still succeeded
C10_Witness ==
    /\ pc = "returned"
    /\ failAt = "logread"
    /\ persisted # <<>>
    /\ disk.log_exists
    /\ Len(disk.raw) = 2
    /\ Len(disk.logs) = 1
    /\ result.success
    /\ result.errors = <<>>

\* the snapshot directory could not be created and the call still succeeded
C10_MkdirRefused ==
    /\ pc = "returned"
    /\ failAt = "mkdir"
    /\ persisted # <<>>
    /\ disk = EmptyDisk
    /\ result.success

-----------------------------------------------------------------------------
(* tracker.qualifies *)

\* an Optional[int]: absent (None) or one value
Absent == <<>>
Some(n) == <<n>>

AnyOf(checks) == \E i \in 1..Len(checks) : checks[i]
AllOf(checks) == \A i \in 1..Len(checks) : checks[i]

\* qualifies with the mode applied to the default rule as well
qualifies_mode_on_defaults(pts, ast, reb, pts_thr, ast_thr, reb_thr, logic) ==
    LET checks == (IF pts_thr # Absent THEN <<pts >= pts_thr[1]>> ELSE <<>>)
                  \o (IF ast_thr # Absent THEN <<ast >= ast_thr[1]>> ELSE <<>>)
                  \o (IF reb_thr # Absent THEN <<reb >= reb_thr[1]>> ELSE <<>>)
        used == IF checks = <<>> THEN <<pts >= 20, ast >= 5, reb >= 7>> ELSE checks
    IN IF logic = "any" THEN AnyOf(used) ELSE AllOf(used)

\* qualifies with an absent threshold replaced by its default once any is given
qualifies_absent_as_default(pts, ast, reb, pts_thr, ast_thr, reb_thr, logic) ==
    LET checks == <<pts >= (IF pts_thr # Absent THEN pts_thr[1] ELSE 20),
                    ast >= (IF ast_thr # Absent THEN ast_thr[1] ELSE 5),
                    reb >= (IF reb_thr # Absent THEN reb_thr[1] ELSE 7)>>
    IN IF pts_thr = Absent /\ ast_thr = Absent /\ reb_thr = Absent
       THEN (pts >= 20) \/ (ast >= 5) \/ (reb >= 7)
       ELSE IF logic = "any" THEN AnyOf(checks) ELSE AllOf(checks)

\* qualifies reading the mode without regard to case and defaulting to any
qualifies_mode_lenient(pts, ast, reb, pts_thr, ast_thr, reb_thr, logic) ==
    LET checks == (IF pts_thr # Absent THEN <<pts >= pts_thr[1]>> ELSE <<>>)
                  \o (IF ast_thr # Absent THEN <<ast >= ast_thr[1]>> ELSE <<>>)
                  \o (IF reb_thr # Absent THEN <<reb >= reb_thr[1]>> ELSE <<>>)
    IN IF checks = <<>> THEN (pts >= 20) \/ (ast >= 5) \/ (reb >= 7)
       ELSE IF logic \in {"all", "ALL"} THEN AllOf(checks) ELSE AnyOf(checks)

qualifies(pts, ast, reb, pts_thr, ast_thr, reb_thr, logic) ==
    LET checks == (IF pts_thr # Absent THEN <<pts >= pts_thr[1]>> ELSE <<>>)
                  \o (IF ast_thr # Absent THEN <<ast >= ast_thr[1]>> ELSE <<>>)
                  \o (IF reb_thr # Absent THEN <<reb >= reb_thr[1]>> ELSE <<>>)
    IN IF checks = <<>>
       THEN (pts >= 20) \/ (ast >= 5) \/ (reb >= 7)
       ELSE IF logic = "any" THEN AnyOf(checks) ELSE AllOf(checks)

\* stat values and thresholds around the defaults 20 / 5 / 7
PtsArgs == {0, 19, 20, 25, 30}
AstArgs == {0, 4, 5, 10}
RebArgs == {0, 6, 7}
PtsThresholds == {Absent, Some(0), Some(20), Some(30)}
AstThresholds == {Absent, Some(5), Some(10)}
RebThresholds == {Absent, Some(7)}

\* the two modes of the CLI, and what the logic query parameter lets through
LogicValues == {"any", "all", "ANY", "ALL", "either"}

InitQualifies ==
    /\ q \in [pc : {"ready"}, pts : PtsArgs, ast : AstArgs, reb : RebArgs,
              pts_thr : PtsThresholds, ast_thr : AstThresholds,
              reb_thr : RebThresholds, logic : LogicValues, result : {FALSE}]
    /\ CtlIdle /\ calls = 0 /\ disk = EmptyDisk
    /\ vbatch = <<>> /\ vpc = "done" /\ vresult = FALSE
    /\ api = Off /\ mrg = Off
    /\ nz = Off /\ fan = Off /\ out = Off

Qualify ==
    /\ q.pc = "ready"
    /\ q' = [q EXCEPT !.pc = "done",
                      !.result = qualifies(q.pts, q.ast, q.reb, q.pts_thr, q.ast_thr,
                                           q.reb_thr, q.logic)]
    /\ UNCHANGED <<ctlVars, valVars, api, mrg, nz, fan, out>>

NextQualifies == Qualify

SpecQualifies == InitQualifies /\ [][NextQualifies]_vars

-----------------------------------------------------------------------------
(* Claims about qualifies, checked under SpecQualifies *)

NoThreshold == q.pts_thr = <<>> /\ q.ast_thr = <<>> /\ q.reb_thr = <<>>

\* C11: with no threshold provided, qualifies returns pts >= 20 or ast >= 5 or
\* reb >= 7 for either mode, the value of qualifies with thresholds (20, 5, 7)
\* and mode any.
C11_DefaultRuleIgnoresMode ==
    (q.pc = "done" /\ NoThreshold)
        => /\ q.result = ((q.pts >= 20) \/ (q.ast >= 5) \/ (q.reb >= 7))
           /\ q.result = qualifies(q.pts, q.ast, q.reb, <<20>>, <<5>>, <<7>>, "any")

\* mode all, only the assists reach their default: the line qualifies
C11_Witness ==
    /\ q.pc = "done"
    /\ NoThreshold
    /\ q.logic = "all"
    /\ q.pts = 19 /\ q.ast = 5 /\ q.reb = 6
    /\ q.result = TRUE

\* the metrics whose threshold is provided, and whether each meets it
ProvidedMetrics ==
    (IF q.pts_thr # <<>> THEN {"pts"} ELSE {})
    \cup (IF q.ast_thr # <<>> THEN {"ast"} ELSE {})
    \cup (IF q.reb_thr # <<>> THEN {"reb"} ELSE {})

Meets(m) ==
    CASE m = "pts" -> q.pts >= q.pts_thr[1]
      [] m = "ast" -> q.ast >= q.ast_thr[1]
      [] m = "reb" -> q.reb >= q.reb_thr[1]

\* C12: with at least one threshold provided, mode any is true iff some
\* provided metric meets its threshold and mode all iff every provided metric
\* does; the value of a metric whose threshold is absent never matters.
C12_OnlyProvidedThresholdsCount ==
    (q.pc = "done" /\ ProvidedMetrics # {})
        => /\ q.logic = "any" => (q.result = \E m \in ProvidedMetrics : Meets(m))
           /\ q.logic = "all" => (q.result = \A m \in ProvidedMetrics : Meets(m))
           /\ q.logic \in {"any", "all"} =>
                q.result = qualifies(IF q.pts_thr = <<>> THEN 0 ELSE q.pts,
                                     IF q.ast_thr = <<>> THEN 0 ELSE q.ast,
                                     IF q.reb_thr = <<>> THEN 0 ELSE q.reb,
                                     q.pts_thr, q.ast_thr, q.reb_thr, q.logic)

\* pts_thr=20 met, ast_thr=10 not met with ast=0, reb_thr absent, mode all
C12_Witness ==
    /\ q.pc = "done"
    /\ q.pts = 25 /\ q.ast = 0 /\ q.reb = 7
    /\ q.pts_thr = <<20>> /\ q.ast_thr = <<10>> /\ q.reb_thr = <<>>
    /\ q.logic = "all"
    /\ q.result = FALSE

\* pts=25 against pts_thr=20 alone, mode any: the line qualifies
C12_AnyExample ==
    /\ q.pc = "done"
    /\ q.pts = 25 /\ q.ast = 0 /\ q.reb = 0
    /\ q.pts_thr = <<20>> /\ q.ast_thr = <<>> /\ q.reb_thr = <<>>
    /\ q.logic = "any"
    /\ q.result = TRUE

-----------------------------------------------------------------------------
(* tracker.get_all_stats *)

TrackerOrder == <<"ESPN", "NBAAPI", "BALLDONTLIE", "RAPIDAPI">>

TrackerProviders == {TrackerOrder[k] : k \in 1..Len(TrackerOrder)}

PlayerLine(player, team, p, r, a) ==
    [Player |-> player, Team |-> team, PTS |-> p, REB |-> r, AST |-> a]

\* a scorer and a playmaker: each meets one of the request thresholds below
HighScorer == PlayerLine("p1", "LAL", 35, 3, 2)
Playmaker == PlayerLine("p2", "BOS", 10, 8, 11)

Feed(lines) == [kind |-> "data", exc |-> NoneVal, lines |-> lines]
FeedRaises(e) == [kind |-> "raise", exc |-> e, lines |-> <<>>]

\* what a provider holds for one date; the code after the try blocks of
\* fetch_from_nba_api and fetch_from_bdl can raise on an unexpected payload
FeedsOf(name) ==
    CASE name = "ESPN" -> {Feed(<<>>), Feed(<<HighScorer, Playmaker>>), Feed(<<Playmaker>>)}
      [] name = "NBAAPI" -> {FeedRaises("'GAME_ID'"), Feed(<<>>), Feed(<<HighScorer>>)}
      [] name = "BALLDONTLIE" -> {FeedRaises("'pts'"), Feed(<<>>),
                                  Feed(<<Playmaker, HighScorer>>)}
      [] name = "RAPIDAPI" -> {Feed(<<>>)}

DayFeeds ==
    {f \in [TrackerProviders -> UNION {FeedsOf(n) : n \in TrackerProviders}] :
        \A n \in TrackerProviders : f[n] \in FeedsOf(n)}

\* a provider function returning every line of the feed, qualifying or not
fetch_from_unfiltered(name, feed, pts_thr, ast_thr, reb_thr, logic) ==
    IF name = "RAPIDAPI" THEN [exc |-> NoneVal, players |-> <<>>]
    ELSE IF feed.kind = "raise" THEN [exc |-> feed.exc, players |-> <<>>]
    ELSE [exc |-> NoneVal, players |-> feed.lines]

\* fetch_from_espn, fetch_from_nba_api, fetch_from_bdl, fetch_from_rapidapi:
\* the lines of the feed that qualify; the RapidAPI stub has no key and no data
fetch_from(name, feed, pts_thr, ast_thr, reb_thr, logic) ==
    IF name = "RAPIDAPI" THEN [exc |-> NoneVal, players |-> <<>>]
    ELSE IF feed.kind = "raise" THEN [exc |-> feed.exc, players |-> <<>>]
    ELSE [exc |-> NoneVal,
          players |-> SelectSeq(feed.lines,
                        LAMBDA l : qualifies(l.PTS, l.AST, l.REB,
                                             pts_thr, ast_thr, reb_thr, logic))]

\* the for loop of get_all_stats from source k on
RECURSIVE get_all_stats_from(_, _, _, _, _, _)
get_all_stats_from(k, feeds, pts_thr, ast_thr, reb_thr, logic) ==
    IF k > Len(TrackerOrder) THEN [exc |-> NoneVal, players |-> <<>>, source |-> NoneVal]
    ELSE LET name == TrackerOrder[k]
             data == fetch_from(name, feeds[name], pts_thr, ast_thr, reb_thr, logic)
         IN IF data.exc # NoneVal
            THEN [exc |-> data.exc, players |-> <<>>, source |-> NoneVal]
            ELSE IF data.players # <<>>
            THEN [exc |-> NoneVal, players |-> data.players, source |-> name]
            ELSE get_all_stats_from(k + 1, feeds, pts_thr, ast_thr, reb_thr, logic)

get_all_stats(feeds, pts_thr, ast_thr, reb_thr, logic) ==
    get_all_stats_from(1, feeds, pts_thr, ast_thr, reb_thr, logic)

-----------------------------------------------------------------------------
(* The web API: /api/stats *)

Today == date_str
Yesterday == "2025-06-04"

\* a query parameter: missing (None), empty, or a value
DateParams == {NoneVal, "", "2024-10-28"}

StatsRequests ==
    [date : DateParams, pts : {Absent, Some(30)}, ast : {Absent, Some(10)},
     reb : {Absent}, logic : {"any", "all"}]

\* target_date after the default to today
target_date_of(date_param) == IF Truthy(date_param) THEN date_param ELSE Today

\* the retry taken whenever the first lookup is empty, date parameter or not
should_retry_any_request(players, date_param) == players = <<>>

\* if not players and not request.args.get('date')
should_retry(players, date_param) == players = <<>> /\ ~Truthy(date_param)

\* the framework's own answer to an exception that left the handler
error_response_escaped(e) == [status |-> 500, body |-> [html |-> "Internal Server Error"]]

\* except Exception as e: return jsonify({'success': False, 'error': str(e)}), 500
error_response(e) == [status |-> 500, body |-> [success |-> FALSE, error |-> e]]

Lookup(day, r) == [date |-> day, exc |-> r.exc, players |-> r.players, source |-> r.source]

\* get_stats: the response and the lookups it made, in order
get_stats(req, world) ==
    LET target_date == target_date_of(req.date)
        first == get_all_stats(world[target_date], req.pts, req.ast, req.reb, req.logic)
        retry == first.exc = NoneVal /\ should_retry(first.players, req.date)
        second == get_all_stats(world[Yesterday], req.pts, req.ast, req.reb, req.logic)
        last == IF retry THEN second ELSE first
        lookups == <<Lookup(target_date, first)>>
                   \o (IF retry THEN <<Lookup(Yesterday, second)>> ELSE <<>>)
    IN IF last.exc # NoneVal
       THEN [resp |-> error_response(last.exc), exc |-> last.exc, lookups |-> lookups]
       ELSE [exc |-> NoneVal,
             resp |-> [status |-> 200,
                       body |-> [success |-> TRUE,
                                 date |-> IF retry THEN Yesterday ELSE target_date,
                                 source |-> last.source,
                                 count |-> Len(last.players),
                                 players |-> last.players,
                                 filters |-> [pts |-> req.pts, ast |-> req.ast,
                                              reb |-> req.reb, logic |-> req.logic]]],
             lookups |-> lookups]

-----------------------------------------------------------------------------
(* The web API: /api/boxscore *)

\* the for loop of fetch_boxscores from source i on, run to its end
RECURSIVE fetch_loop(_, _, _, _, _)
fetch_loop(srcs, i, st, a, fail) ==
    IF i > Len(srcs)
    THEN [st EXCEPT !.result = on_exhausted(@), !.pc = "returned"]
    ELSE LET source_name == srcs[i]
             t == try_body(source_name, a[source_name], fail, st.disk)
             step == IF t.exc # NoneVal THEN on_exception(st.result, source_name, t.exc)
                     ELSE IF t.valid THEN on_valid(st.result, source_name, t.boxscores)
                     ELSE on_invalid(st.result, source_name)
             st1 == [result |-> step.result, disk |-> t.disk,
                     invoked |-> Append(st.invoked, source_name),
                     persisted |-> st.persisted \o t.persist_calls,
                     pc |-> step.pc]
         IN IF step.pc = "loop" THEN fetch_loop(srcs, i + 1, st1, a, fail) ELSE st1

\* one whole call of fetch_boxscores(date_str, game_id, force_source)
fetch_boxscores(day, game_id, force, a, fail, d) ==
    fetch_loop(select_sources(force), 1,
               [result |-> [initial_result EXCEPT !.date = day, !.game_id = game_id],
                disk |-> d, invoked |-> <<>>, persisted |-> <<>>, pc |-> "loop"],
               a, fail)

BoxscoreRequests ==
    [game_id : {NoneVal, "", "0042400401"}, date : {NoneVal, "", Today},
     source : {NoneVal, "ESPN_API", "BALLDONTLIE"}]

\* the deployment's file system: writable, or read-only so that makedirs fails
ApiFailSteps == {"none", "mkdir"}

missing_params_msg == "Either game_id or date is required"

\* the guard answering 400 as soon as the date is missing
needs_params_date_only(game_id, date_param) == ~Truthy(date_param)

\* if not game_id and not date_param
needs_params(game_id, date_param) == ~Truthy(game_id) /\ ~Truthy(date_param)

\* the status of an answered controller result, failures mapped to 502
boxscore_status_by_success(res) == IF res.success THEN 200 ELSE 502

\* return jsonify(result): the status is 200 whatever the result says
boxscore_status(res) == 200

\* get_boxscore: the response, the controller calls made, the providers invoked
\* and the disk left; unserializable: jsonify cannot encode a value of the records
get_boxscore(req, a, fail, d, unserializable) ==
    IF needs_params(req.game_id, req.date)
    THEN [resp |-> [status |-> 400,
                    body |-> [success |-> FALSE, error |-> missing_params_msg]],
          exc |-> NoneVal, ctl_calls |-> <<>>, invoked |-> <<>>, disk |-> d]
    ELSE LET day == IF Truthy(req.date) THEN req.date ELSE Today
             run == fetch_boxscores(day, req.game_id, req.source, a, fail, d)
             call == [date |-> day, game_id |-> req.game_id, force_source |-> req.source]
             exc == IF run.pc = "raised" THEN "controller"
                    ELSE IF unserializable /\ run.result.boxscores # <<>>
                    THEN "Object of type int64 is not JSON serializable"
                    ELSE NoneVal
         IN [resp |-> IF exc # NoneVal THEN error_response(exc)
                      ELSE [status |-> boxscore_status(run.result), body |-> run.result],
             exc |-> exc, ctl_calls |-> <<call>>, invoked |-> run.invoked,
             disk |-> run.disk]

-----------------------------------------------------------------------------
(* The web API: schedule, fantasy and health endpoints *)

\* what a call made by a handler does: raise e, or return a value
CallRaises(e) == [kind |-> "raise", exc |-> e]
CallReturns(v) == [kind |-> "return", value |-> v]

\* requests.get on the ESPN scoreboard: a failure, or the games of the day
ScoreboardOutcomes ==
    {CallRaises("ConnectionError"), CallReturns(<<>>),
     CallReturns(<<[id |-> "401585601", home |-> "LAL", away |-> "BOS"]>>)}

get_schedule(date_param, scoreboard) ==
    IF scoreboard.kind = "raise"
    THEN [resp |-> error_response(scoreboard.exc), exc |-> scoreboard.exc]
    ELSE [resp |-> [status |-> 200,
                    body |-> [success |-> TRUE, date |-> target_date_of(date_param),
                              count |-> Len(scoreboard.value),
                              games |-> scoreboard.value]],
          exc |-> NoneVal]

\* sync_fantasy_data catches its own exceptions and returns a status; only the
\* import in the handler can raise
SyncOutcomes ==
    {CallRaises("No module named 'espn_api'"),
     CallReturns([status |-> "success", errors |-> <<>>]),
     CallReturns([status |-> "failed", errors |-> <<"Sync failed: 401">>])}

fantasy_sync(sync) ==
    IF sync.kind = "raise"
    THEN [resp |-> error_response(sync.exc), exc |-> sync.exc]
    ELSE [resp |-> [status |-> 200, body |-> sync.value], exc |-> NoneVal]

FantasyTables == {"teams", "rosters", "matchups"}

\* get_latest_fantasy_data: FileNotFoundError, or the tables (rows per table)
LatestDataOutcomes ==
    {CallRaises("No fantasy data available"),
     CallReturns([teams |-> <<>>, rosters |-> <<>>, matchups |-> <<>>]),
     CallReturns([teams |-> <<"t1">>, rosters |-> <<"r1", "r2">>, matchups |-> <<"m1">>])}

\* get_fantasy_teams, get_fantasy_rosters, get_fantasy_matchups
get_fantasy_table(table, latest) ==
    IF latest.kind = "raise"
    THEN [resp |-> error_response(latest.exc), exc |-> latest.exc]
    ELSE [resp |-> [status |-> 200,
                    body |-> [success |-> TRUE, table |-> table,
                              rows |-> latest.value[table],
                              count |-> Len(latest.value[table])]],
          exc |-> NoneVal]

\* generate_daily_fantasy_report: it catches what its body raises and returns
\* the report with an error field; only the import in the handler can raise
ReportOutcomes ==
    {CallRaises("No module named 'fantasy'"),
     CallReturns([top_performers |-> <<"p1">>, error |-> NoneVal]),
     CallReturns([top_performers |-> <<>>, error |-> "No fantasy data available"])}

get_fantasy_report(date_param, report) ==
    IF report.kind = "raise"
    THEN [resp |-> error_response(report.exc), exc |-> report.exc]
    ELSE [resp |-> [status |-> 200, body |-> report.value], exc |-> NoneVal]

\* health_check: no try block and nothing that can raise
health_check == [resp |-> [status |-> 200, body |-> [status |-> "healthy"]], exc |-> NoneVal]

-----------------------------------------------------------------------------
(* The web API as a server: one request at a time *)

ApiIdle(n) == [pc |-> "idle", served |-> n]

InitApi ==
    /\ api = ApiIdle(0)
    /\ CtlIdle
    /\ calls = 0
    /\ disk = EmptyDisk
    /\ vbatch = <<>> /\ vpc = "done" /\ vresult = FALSE
    /\ q = Off /\ mrg = Off
    /\ nz = Off /\ fan = Off /\ out = Off

\* the state after a handler has produced its response
Served(endpoint, req, env, h, lookups, ctl_calls, called) ==
    [pc |-> "served", served |-> api.served + 1, endpoint |-> endpoint, req |-> req,
     env |-> env, resp |-> h.resp, exc |-> h.exc, lookups |-> lookups,
     ctl_calls |-> ctl_calls, invoked |-> called]

Accepting == api.pc = "idle" /\ api.served < MaxRequests

ServeStats ==
    /\ Accepting
    /\ \E req \in StatsRequests :
       \E world \in [{target_date_of(req.date), Yesterday} -> DayFeeds] :
          LET h == get_stats(req, world)
              looked_up == {h.lookups[k].date : k \in 1..Len(h.lookups)}
          IN api' = Served("stats", req, [d \in looked_up |-> world[d]], h,
                           h.lookups, <<>>, <<>>)
    /\ UNCHANGED <<ctlVars, valVars, q, mrg, nz, fan, out>>

ServeSchedule ==
    /\ Accepting
    /\ \E date_param \in DateParams, scoreboard \in ScoreboardOutcomes :
          api' = Served("schedule", [date |-> date_param], scoreboard,
                        get_schedule(date_param, scoreboard), <<>>, <<>>, <<>>)
    /\ UNCHANGED <<ctlVars, valVars, q, mrg, nz, fan, out>>

ServeBoxscore ==
    /\ Accepting
    /\ \E req \in BoxscoreRequests, a \in AdapterChoices, fail \in ApiFailSteps,
          unserializable \in BOOLEAN :
          LET h == get_boxscore(req, a, fail, disk, unserializable)
          IN /\ api' = Served("boxscore", req,
                              [adapters |-> a, failAt |-> fail,
                               unserializable |-> unserializable],
                              h, <<>>, h.ctl_calls, h.invoked)
             /\ disk' = h.disk
    /\ UNCHANGED <<ctlLocals, valVars, q, mrg, nz, fan, out>>

ServeFantasySync ==
    /\ Accepting
    /\ \E sync \in SyncOutcomes :
          api' = Served("fantasy/sync", [date |-> NoneVal], sync, fantasy_sync(sync),
                        <<>>, <<>>, <<>>)
    /\ UNCHANGED <<ctlVars, valVars, q, mrg, nz, fan, out>>

ServeFantasyTable(table) ==
    /\ Accepting
    /\ \E latest \in LatestDataOutcomes :
          api' = Served("fantasy/" \o table, [date |-> NoneVal], latest,
                        get_fantasy_table(table, latest), <<>>, <<>>, <<>>)
    /\ UNCHANGED <<ctlVars, valVars, q, mrg, nz, fan, out>>

ServeFantasyTeams == ServeFantasyTable("teams")
ServeFantasyRosters == ServeFantasyTable("rosters")
ServeFantasyMatchups == ServeFantasyTable("matchups")

ServeFantasyReport ==
    /\ Accepting
    /\ \E date_param \in DateParams, report \in ReportOutcomes :
          api' = Served("fantasy/report", [date |-> date_param], report,
                        get_fantasy_report(date_param, report), <<>>, <<>>, <<>>)
    /\ UNCHANGED <<ctlVars, valVars, q, mrg, nz, fan, out>>

ServeHealth ==
    /\ Accepting
    /\ api' = Served("health", [date |-> NoneVal], [none |-> TRUE], health_check,
                     <<>>, <<>>, <<>>)
    /\ UNCHANGED <<ctlVars, valVars, q, mrg, nz, fan, out>>

\* the response is sent; the server waits for the next request
Respond ==
    /\ api.pc = "served"
    /\ api' = ApiIdle(api.served)
    /\ UNCHANGED <<ctlVars, valVars, q, mrg, nz, fan, out>>

NextApi ==
    \/ ServeStats
    \/ ServeSchedule
    \/ ServeBoxscore
    \/ ServeFantasySync
    \/ ServeFantasyTeams
    \/ ServeFantasyRosters
    \/ ServeFantasyMatchups
    \/ ServeFantasyReport
    \/ ServeHealth
    \/ Respond

SpecApi == InitApi /\ [][NextApi]_vars

-----------------------------------------------------------------------------
(* Claims about the web API, checked under SpecApi *)

ServedBy(endpoint) == api.pc = "served" /\ api.endpoint = endpoint

\* a query parameter is supplied when the request gives it a non-empty value
Supplied(param) == param # NoneVal /\ param # ""

C13_GameIdOnly ==
    /\ ServedBy("boxscore")
    /\ Supplied(api.req.game_id) /\ api.req.date = NoneVal
    /\ Len(api.ctl_calls) = 1
    /\ api.ctl_calls[1].date = Today
    /\ Len(api.invoked) = 2

\* C14: /api/stats looks the providers up a second time, for the previous day,
\* exactly when the first lookup came back with no players and the request
\* supplied no date; there are never more than two lookups, and after a retry
\* the response's date is the previous day.
C14_RetryOnceForYesterday ==
    ServedBy("stats") =>
        LET first == api.lookups[1]
            retried == Len(api.lookups) = 2
        IN /\ Len(api.lookups) \in {1, 2}
           /\ first.date = (IF Supplied(api.req.date) THEN api.req.date ELSE Today)
           /\ retried <=> (/\ first.exc = NoneVal
                           /\ first.players = <<>>
                           /\ ~Supplied(api.req.date))
           /\ retried => api.lookups[2].date = Yesterday
           /\ (retried /\ api.resp.status = 200) => api.resp.body.date = Yesterday
           /\ (~retried /\ api.resp.status = 200) => api.resp.body.date = first.date

\* today has no qualifying player, yesterday has: the retry's players are served
C14_Witness ==
    /\ ServedBy("stats")
    /\ api.req.date = NoneVal
    /\ Len(api.lookups) = 2
    /\ api.resp.status = 200
    /\ api.resp.body.date = Yesterday
    /\ api.resp.body.players # <<>>

\* an explicit date with no qualifying player is answered empty, without retry
C14_ExplicitDateNoRetry ==
    /\ ServedBy("stats")
    /\ Supplied(api.req.date)
    /\ Len(api.lookups) = 1
    /\ api.resp.status = 200
    /\ api.resp.body.players = <<>>

\* the lines of a provider's feed that meet the request's filter
QualifyingLines(name, feeds) ==
    IF name = "RAPIDAPI" \/ feeds[name].kind = "raise" THEN <<>>
    ELSE SelectSeq(feeds[name].lines,
                   LAMBDA l : qualifies(l.PTS, l.AST, l.REB, api.req.pts, api.req.ast,
                                        api.req.reb, api.req.logic))

\* C15: every player of an /api/stats response satisfies qualifies for the
\* request's thresholds and logic (with pts=30 alone, every player has
\* PTS >= 30), and the source is the first provider, in the order ESPN, NBAAPI,
\* BALLDONTLIE, RAPIDAPI, with qualifying data for the response's date; its
\* qualifying lines are the players, and there is no source when none has any.
C15_FilteredPlayersFirstProvider ==
    (ServedBy("stats") /\ api.resp.status = 200) =>
        LET body == api.resp.body
            feeds == api.env[body.date]
            having == {k \in 1..Len(TrackerOrder) :
                          QualifyingLines(TrackerOrder[k], feeds) # <<>>}
        IN /\ \A i \in 1..Len(body.players) :
                 LET l == body.players[i]
                 IN /\ qualifies(l.PTS, l.AST, l.REB, api.req.pts, api.req.ast,
                                 api.req.reb, api.req.logic)
                    /\ (api.req.pts = Some(30) /\ api.req.ast = Absent) => l.PTS >= 30
           /\ body.count = Len(body.players)
           /\ IF having = {}
              THEN body.source = NoneVal /\ body.players = <<>>
              ELSE \E k \in having :
                      /\ \A j \in having : k <= j
                      /\ body.source = TrackerOrder[k]
                      /\ body.players = QualifyingLines(TrackerOrder[k], feeds)

\* pts=30 on the explicit date: the third provider is the first with a
\* qualifying line, and only its 35-point scorer is returned
C15_Witness ==
    /\ ServedBy("stats")
    /\ api.resp.status = 200
    /\ api.req.date = "2024-10-28"
    /\ api.req.pts = Some(30) /\ api.req.ast = Absent
    /\ api.resp.body.source = "BALLDONTLIE"
    /\ api.resp.body.players = <<HighScorer>>
    /\ api.env["2024-10-28"]["BALLDONTLIE"].lines = <<Playmaker, HighScorer>>

\* a provider whose batch the controller accepts
Yields(n) ==
    /\ api.env.adapters[n].kind = "return"
    /\ api.env.adapters[n].batch # <<>>
    /\ validate_boxscores(api.env.adapters[n].batch)

\* the providers a /api/boxscore request lets the controller try, in order
Tried ==
    IF Supplied(api.req.source)
    THEN SelectSeq(PriorityOrder, LAMBDA n : n = api.req.source)
    ELSE PriorityOrder

\* the exception that reaches the route handler of the served request, if any
UnhandledException ==
    CASE api.endpoint = "stats" ->
            api.lookups[Len(api.lookups)].exc
      [] api.endpoint = "boxscore" ->
            IF /\ Supplied(api.req.game_id) \/ Supplied(api.req.date)
               /\ api.env.unserializable
               /\ \E k \in 1..Len(Tried) : Yields(Tried[k])
            THEN "Object of type int64 is not JSON serializable"
            ELSE NoneVal
      [] api.endpoint = "health" -> NoneVal
      [] OTHER -> IF api.env.kind = "raise" THEN api.env.exc ELSE NoneVal

\* C16: on every endpoint, an exception raised while serving the request and
\* not handled further down is answered 500 with {success:false, error:<its
\* text>}; none leaves the handler and none is answered under another status.
C16_UnhandledExceptionIs500 ==
    (api.pc = "served" /\ UnhandledException # NoneVal) =>
        /\ api.exc = UnhandledException
        /\ api.resp = [status |-> 500,
                       body |-> [success |-> FALSE, error |-> UnhandledException]]

\* the retry of /api/stats raises after an empty first lookup: 500 with its text
C16_Witness ==
    /\ ServedBy("stats")
    /\ Len(api.lookups) = 2
    /\ api.lookups[2].exc = "'pts'"
    /\ api.resp = [status |-> 500, body |-> [success |-> FALSE, error |-> "'pts'"]]

\* an exception that the callee handles itself is answered 200, not 500
C16_HandledBelow ==
    /\ ServedBy("fantasy/report")
    /\ api.env.kind = "return"
    /\ api.env.value.error # NoneVal
    /\ api.resp.status = 200

\* the messages of the tried providers that raised, in order, up to the n-th
RECURSIVE TriedMessages(_)
TriedMessages(n) ==
    IF n = 0 THEN <<>>
    ELSE TriedMessages(n - 1) \o
         (IF api.env.adapters[Tried[n]].kind = "raise"
          THEN <<Tried[n] \o " error: " \o api.env.adapters[Tried[n]].exc>>
          ELSE <<>>)

\* C17: when a /api/boxscore request with a date or game_id finds no provider
\* yielding valid data, the answer is 200 with success=false, no records and
\* the accumulated errors ending in the all-sources-failed entry; exhaustion
\* is never a 4xx or 5xx.
C17_ExhaustionIs200 ==
    (/\ ServedBy("boxscore")
     /\ Supplied(api.req.game_id) \/ Supplied(api.req.date)
     /\ \A k \in 1..Len(Tried) : ~Yields(Tried[k]))
        => /\ api.resp.status = 200
           /\ api.resp.body.success = FALSE
           /\ api.resp.body.boxscores = <<>>
           /\ api.resp.body.errors =
                 TriedMessages(Len(Tried))
                 \o <<"All sources failed to return valid box scores">>

\* both providers are tried, one raises and one returns nothing: 200 with the
\* provider's error and the final entry
C17_Witness ==
    /\ ServedBy("boxscore")
    /\ Supplied(api.req.date)
    /\ Len(api.invoked) = 2
    /\ api.env.adapters["NBA_API"].kind = "raise"
    /\ api.env.adapters["ESPN_API"] = Returns(<<>>)
    /\ api.resp.status = 200
    /\ api.resp.body.success = FALSE
    /\ Len(api.resp.body.errors) = 2

-----------------------------------------------------------------------------
(* fantasy.merge_pipeline: names *)

\* a name is the sequence of its characters
UpperCase == <<"A", "B", "C", "D", "E", "F", "G", "H", "I", "J", "K", "L", "M">>
             \o <<"N", "O", "P", "Q", "R", "S", "T", "U", "V", "W", "X", "Y", "Z">>

LowerCase == <<"a", "b", "c", "d", "e", "f", "g", "h", "i", "j", "k", "l", "m">>
             \o <<"n", "o", "p", "q", "r", "s", "t", "u", "v", "w", "x", "y", "z">>

IsSpace(c) == c = " "

\* str.lower on one character
lower(c) ==
    IF \E i \in 1..Len(UpperCase) : UpperCase[i] = c
    THEN LowerCase[CHOOSE i \in 1..Len(UpperCase) : UpperCase[i] = c]
    ELSE c

Lowered(name) == [i \in 1..Len(name) |-> lower(name[i])]

\* what \s+(Jr\.|Sr\.|III|II|IV)\.?$ can match after the whitespace, lowered
SuffixTails ==
    {<<"j", "r", ".">>, <<"j", "r", ".", ".">>, <<"s", "r", ".">>, <<"s", "r", ".", ".">>, <<"i", "i", "i">>, <<"i", "i", "i", ".">>, <<"i", "i">>, <<"i", "i", ".">>, <<"i", "v">>, <<"i", "v", ".">>}

\* the first re.sub: a final token that is a suffix goes, with the whitespace
\* before it; a name without whitespace before the token is left alone
strip_suffix(name) ==
    LET n == Len(name)
        spaces == {i \in 1..n : IsSpace(name[i])}
        k == IF spaces = {} THEN 0 ELSE CHOOSE i \in spaces : \A j \in spaces : j <= i
        token == Lowered(SubSeq(name, k + 1, n))
        kept == {i \in 1..k : ~IsSpace(name[i])}
        m == IF kept = {} THEN 0 ELSE CHOOSE i \in kept : \A j \in kept : j <= i
    IN IF k >= 1 /\ token \in SuffixTails THEN SubSeq(name, 1, m) ELSE name

\* the second re.sub: lower case, then only a-z and whitespace are kept
strip_special(name) ==
    SelectSeq(Lowered(name),
              LAMBDA c : IsSpace(c) \/ \E i \in 1..Len(LowerCase) : LowerCase[i] = c)

\* name.split(): the maximal runs of non-whitespace, in order
RECURSIVE split(_)
split(name) ==
    IF name = <<>> THEN <<>>
    ELSE IF IsSpace(Head(name)) THEN split(Tail(name))
    ELSE LET stops == {i \in 1..Len(name) : IsSpace(name[i])}
             e == IF stops = {} THEN Len(name) + 1
                  ELSE CHOOSE i \in stops : \A j \in stops : i <= j
         IN <<SubSeq(name, 1, e - 1)>> \o split(SubSeq(name, e, Len(name)))

\* ' '.join(tokens)
RECURSIVE join(_)
join(tokens) ==
    IF tokens = <<>> THEN <<>>
    ELSE IF Len(tokens) = 1 THEN tokens[1]
    ELSE tokens[1] \o <<" ">> \o join(Tail(tokens))

\* normalization that only lowers the case of the name
normalize_player_name_case_only(name) == Lowered(name)

normalize_player_name(name) == join(split(strip_special(strip_suffix(name))))

\* the names of the model's rosters and stat records
GaryPaytonII == <<"G", "a", "r", "y", " ", "P", "a", "y", "t", "o", "n", " ", "I", "I">>
GaryPayton == <<"G", "a", "r", "y", " ", "P", "a", "y", "t", "o", "n">>
PJTucker == <<"P", "J", " ", "T", "u", "c", "k", "e", "r">>
PJTuckerDotted == <<"P", ".", "J", ".", " ", "T", "u", "c", "k", "e", "r">>

-----------------------------------------------------------------------------
(* fantasy.merge_pipeline: the merge *)

\* roster entries and stat records per input of the merge
MaxRoster == 2
MaxStats == 2

\* a row of rosters.csv; points are in tenths
RosterEntry(name, injured) ==
    [player_name |-> name, team_name |-> "Team A", injured |-> injured,
     total_points |-> 300]

RosterEntries == {RosterEntry(n, i) : n \in {GaryPaytonII, PJTucker}, i \in BOOLEAN}

\* a row of the box score table
BoxRow(name, day, p, r, a, s, b) ==
    [player |-> name, game_date |-> day, pts |-> p, reb |-> r, ast |-> a,
     stl |-> s, blk |-> b]

GameDates == {date_str, Yesterday}

BoxRows ==
    {BoxRow(GaryPayton, d, 12, 3, 4, 1, 0) : d \in GameDates}
    \cup {BoxRow(GaryPaytonII, date_str, 8, 5, 2, 2, 1),
          BoxRow(PJTuckerDotted, date_str, 6, 7, 1, 0, 1)}

\* the date_str argument: None, empty, or a date
MergeDates == {NoneVal, "", date_str}

\* the left merge on player_normalized: the rows of one roster entry, in the
\* order of the stat records; real is <<>> where pandas leaves NaN
RECURSIVE fuzzy_match_players(_, _)
fuzzy_match_players(fantasy_df, real_df) ==
    IF fantasy_df = <<>> THEN <<>>
    ELSE LET f == Head(fantasy_df)
             key == normalize_player_name(f.player_name)
             matches == SelectSeq(real_df,
                                  LAMBDA r : normalize_player_name(r.player) = key)
             rows == IF matches = <<>> THEN <<[fantasy |-> f, real |-> <<>>]>>
                     ELSE [k \in 1..Len(matches) |->
                              [fantasy |-> f, real |-> <<matches[k]>>]]
         IN rows \o fuzzy_match_players(Tail(fantasy_df), real_df)

\* calculate_fantasy_points in tenths; NaN (<<>>) for a row without stats
calculate_fantasy_points(row) ==
    IF row.real = <<>> THEN <<>>
    ELSE LET r == row.real[1]
         IN <<r.pts * 10 + r.reb * 12 + r.ast * 15 + r.stl * 30 + r.blk * 30>>

\* the box scores left as they are, whatever the date argument
filter_by_date_off(boxscores, day) == boxscores

\* if date_str and 'game_date' in boxscores.columns: keep that date's rows
filter_by_date(boxscores, day) ==
    IF Truthy(day) THEN SelectSeq(boxscores, LAMBDA b : b.game_date = day)
    ELSE boxscores

\* missed_game set for every row without stats, injured or not
missed_game_ignoring_injury(has_real_stats, injured) == has_real_stats = FALSE

\* (has_real_stats == False) & (injured == False)
missed_game(has_real_stats, injured) == has_real_stats = FALSE /\ injured = FALSE

MergedRecord(row) ==
    LET estimated == calculate_fantasy_points(row)
        has_real_stats == row.real # <<>>
    IN [player_name |-> row.fantasy.player_name,
        team_name |-> row.fantasy.team_name,
        injured |-> row.fantasy.injured,
        total_points |-> row.fantasy.total_points,
        real |-> row.real,
        fantasy_pts_estimated |-> estimated,
        pts_variance |-> IF estimated = <<>> THEN <<>>
                         ELSE <<row.fantasy.total_points - estimated[1]>>,
        has_real_stats |-> has_real_stats,
        missed_game |-> missed_game(has_real_stats, row.fantasy.injured)]

merge_fantasy_with_boxscores(fantasy_rosters, boxscores, day) ==
    LET merged == fuzzy_match_players(fantasy_rosters, filter_by_date(boxscores, day))
    IN [k \in 1..Len(merged) |-> MergedRecord(merged[k])]

InitMerge ==
    /\ mrg \in [pc : {"ready"},
                fantasy_rosters : SeqsUpTo(RosterEntries, MaxRoster),
                boxscores : SeqsUpTo(BoxRows, MaxStats),
                day : MergeDates,
                merged : {<<>>}]
    /\ CtlIdle
    /\ calls = 0
    /\ disk = EmptyDisk
    /\ vbatch = <<>> /\ vpc = "done" /\ vresult = FALSE
    /\ q = Off /\ api = Off
    /\ nz = Off /\ fan = Off /\ out = Off

Merge ==
    /\ mrg.pc = "ready"
    /\ mrg' = [mrg EXCEPT !.pc = "done",
                          !.merged = merge_fantasy_with_boxscores(
                                         mrg.fantasy_rosters, mrg.boxscores, mrg.day)]
    /\ UNCHANGED <<ctlVars, valVars, q, api, nz, fan, out>>

NextMerge == Merge

SpecMerge == InitMerge /\ [][NextMerge]_vars

-----------------------------------------------------------------------------
(* Claims about the merge, checked under SpecMerge *)

ModelNames == {GaryPaytonII, GaryPayton, PJTucker, PJTuckerDotted}

\* the normalized form of each name of the model
NormalizedNames == [n \in ModelNames |-> normalize_player_name(n)]

SameName(a, b) == NormalizedNames[a] = NormalizedNames[b]

\* the stat records given to the merge whose normalized name is that of name
MatchingRecords(name) ==
    {k \in 1..Len(mrg.boxscores) : SameName(mrg.boxscores[k].player, name)}

\* C18: a roster entry whose normalized name equals no stat record's has
\* has_real_stats = false, and in every merged row missed_game is exactly
\* (has_real_stats is false) and (injured is false).
C18_MissedGameFlag ==
    mrg.pc = "done" =>
        /\ \A i \in 1..Len(mrg.fantasy_rosters) :
              MatchingRecords(mrg.fantasy_rosters[i].player_name) = {} =>
                 /\ \E k \in 1..Len(mrg.merged) :
                       mrg.merged[k].player_name = mrg.fantasy_rosters[i].player_name
                 /\ \A k \in 1..Len(mrg.merged) :
                       mrg.merged[k].player_name = mrg.fantasy_rosters[i].player_name
                          => mrg.merged[k].has_real_stats = FALSE
        /\ \A k \in 1..Len(mrg.merged) :
              LET row == mrg.merged[k]
              IN row.missed_game <=> (row.has_real_stats = FALSE /\ row.injured = FALSE)

\* an unmatched healthy player misses the game, an unmatched injured one and a
\* matched one do not
C18_Witness ==
    /\ mrg.pc = "done"
    /\ mrg.fantasy_rosters = <<RosterEntry(GaryPaytonII, TRUE), RosterEntry(PJTucker, FALSE)>>
    /\ mrg.boxscores = <<>>
    /\ Len(mrg.merged) = 2
    /\ ~mrg.merged[1].has_real_stats /\ ~mrg.merged[1].missed_game
    /\ ~mrg.merged[2].has_real_stats /\ mrg.merged[2].missed_game

\* a matched player has not missed the game
C18_Matched ==
    /\ mrg.pc = "done"
    /\ mrg.fantasy_rosters = <<RosterEntry(PJTucker, FALSE)>>
    /\ Len(mrg.merged) = 1
    /\ mrg.merged[1].has_real_stats /\ ~mrg.merged[1].missed_game
    /\ mrg.merged[1].real[1].player = PJTuckerDotted

\* C19: the merge yields exactly one row per roster entry, in roster order: the
\* row carries a stat record of the same normalized name if there is one and
\* no real stats otherwise; no entry is dropped and none is joined twice.
C19_OneRowPerRosterEntry ==
    mrg.pc = "done" =>
        /\ Len(mrg.merged) = Len(mrg.fantasy_rosters)
        /\ \A i \in 1..Len(mrg.merged) :
              i <= Len(mrg.fantasy_rosters) =>
                 /\ mrg.merged[i].player_name = mrg.fantasy_rosters[i].player_name
                 /\ mrg.merged[i].real # <<>> =>
                       SameName(mrg.merged[i].real[1].player, mrg.merged[i].player_name)

\* one roster entry, two stat records of its normalized name: two merged rows
C19_JoinedTwice ==
    /\ mrg.pc = "done"
    /\ Len(mrg.fantasy_rosters) = 1
    /\ mrg.fantasy_rosters[1].player_name = GaryPaytonII
    /\ mrg.day = date_str
    /\ mrg.boxscores = <<BoxRow(GaryPayton, date_str, 12, 3, 4, 1, 0),
                         BoxRow(GaryPaytonII, date_str, 8, 5, 2, 2, 1)>>
    /\ Len(mrg.merged) = 2

\* C20: with an explicit date, no merged row carries the stats of a record of
\* another date, and a roster entry whose matching records are all of other
\* dates has has_real_stats = false.
C20_OtherDatesTakeNoPart ==
    (mrg.pc = "done" /\ Supplied(mrg.day)) =>
        \A k \in 1..Len(mrg.merged) :
           LET row == mrg.merged[k]
           IN /\ row.real # <<>> => row.real[1].game_date = mrg.day
              /\ (\A j \in MatchingRecords(row.player_name) :
                     mrg.boxscores[j].game_date # mrg.day)
                    => row.has_real_stats = FALSE

\* the only record of the player's name is yesterday's: no real stats today
C20_Witness ==
    /\ mrg.pc = "done"
    /\ mrg.day = date_str
    /\ mrg.fantasy_rosters = <<RosterEntry(GaryPaytonII, FALSE)>>
    /\ mrg.boxscores = <<BoxRow(GaryPayton, Yesterday, 12, 3, 4, 1, 0)>>
    /\ Len(mrg.merged) = 1
    /\ mrg.merged[1].has_real_stats = FALSE
    /\ mrg.merged[1].missed_game

-----------------------------------------------------------------------------
(* normalize_player_name on its own *)

\* whitespace characters between a name and its suffix
MaxGap == 2

LeBronJames == <<"L", "e", "B", "r", "o", "n", " ", "J", "a", "m", "e", "s">>
LeBronJamesLower == <<"l", "e", "b", "r", "o", "n", " ", "j", "a", "m", "e", "s">>
LeBronJamesJr == <<"L", "e", "B", "r", "o", "n", " ", "J", "a", "m", "e", "s", " ", "J", "r", ".">>

BaseNames == {LeBronJames, LeBronJamesLower, GaryPayton, PJTuckerDotted}

\* the suffixes the pattern lists, in several spellings
ListedSuffixes ==
    {<<"J", "r", ".">>, <<"S", "r", ".">>, <<"I", "I">>,
     <<"I", "I", "I">>, <<"I", "V">>, <<"j", "r", ".">>,
     <<"S", "R", ".">>, <<"i", "i", "i">>, <<"I", "I", ".">>}

\* last tokens that the pattern does not list
OtherSuffixes == {<<"J", "r">>, <<"V">>}

Spaces(n) == [i \in 1..n |-> " "]

InitNormalize ==
    /\ nz \in [pc : {"ready"},
               base : BaseNames,
               gap : 0..MaxGap,
               suffix : ListedSuffixes \cup OtherSuffixes \cup {<<>>},
               trailing : 0..1,
               key : {<<>>}]
    /\ (nz.suffix = <<>>) <=> (nz.gap = 0)
    /\ CtlIdle
    /\ calls = 0
    /\ disk = EmptyDisk
    /\ vbatch = <<>> /\ vpc = "done" /\ vresult = FALSE
    /\ q = Off /\ api = Off /\ mrg = Off /\ fan = Off /\ out = Off

\* the name handed to normalize_player_name
NameOf(h) == h.base \o Spaces(h.gap) \o h.suffix \o Spaces(h.trailing)

Normalize ==
    /\ nz.pc = "ready"
    /\ nz' = [nz EXCEPT !.pc = "done", !.key = normalize_player_name(NameOf(nz))]
    /\ UNCHANGED <<ctlVars, valVars, q, api, mrg, fan, out>>

NextNormalize == Normalize

SpecNormalize == InitNormalize /\ [][NextNormalize]_vars

-----------------------------------------------------------------------------
(* Claims about normalize_player_name, checked under SpecNormalize *)

\* the key each base name is expected to have
ExpectedKey(base) ==
    CASE base = LeBronJames -> <<"l", "e", "b", "r", "o", "n", " ", "j", "a", "m", "e", "s">>
      [] base = LeBronJamesLower -> <<"l", "e", "b", "r", "o", "n", " ", "j", "a", "m", "e", "s">>
      [] base = GaryPayton -> <<"g", "a", "r", "y", " ", "p", "a", "y", "t", "o", "n">>
      [] base = PJTuckerDotted -> <<"p", "j", " ", "t", "u", "c", "k", "e", "r">>

Alphabet == {LowerCase[i] : i \in 1..Len(LowerCase)}

\* only a-z and single spaces, none at either end
CleanKey(key) ==
    /\ \A i \in 1..Len(key) : key[i] \in Alphabet \/ key[i] = " "
    /\ \A i \in 1..Len(key) : key[i] = " " => (i > 1 /\ i < Len(key) /\ key[i + 1] # " ")

\* C21: normalize_player_name strips a trailing generational suffix (Jr., Sr.,
\* II, III, IV), lowercases, removes every character that is neither a letter
\* nor a space and collapses whitespace: "LeBron James Jr." and "lebron james"
\* have the same key, and "Gary Payton II" has the key "gary payton".
C21_NormalizedKey ==
    /\ nz.pc = "done" =>
          /\ CleanKey(nz.key)
          /\ (nz.suffix \in ListedSuffixes \cup {<<>>} /\ nz.trailing = 0)
                => nz.key = ExpectedKey(nz.base)
    /\ normalize_player_name(LeBronJamesJr) = normalize_player_name(LeBronJamesLower)
    /\ normalize_player_name(GaryPaytonII) = <<"g", "a", "r", "y", " ", "p", "a", "y", "t", "o", "n">>

\* "LeBron James Jr." has been normalized to "lebron james"
C21_Witness ==
    /\ nz.pc = "done"
    /\ NameOf(nz) = LeBronJamesJr
    /\ nz.key = LeBronJamesLower

\* "Gary  Payton III" with two spaces before the suffix: "gary payton"
C21_WideGap ==
    /\ nz.pc = "done"
    /\ nz.base = GaryPayton /\ nz.gap = 2 /\ nz.suffix = <<"I", "I", "I">>
    /\ nz.key = ExpectedKey(GaryPayton)

-----------------------------------------------------------------------------
(* The mode argument of qualifies, checked under SpecQualifies *)

\* C30: with at least one threshold provided, every mode other than the exact
\* string "any" ("ANY", "all", "ALL", an unrecognised word) means ALL: the
\* result is true only if every provided check passes, and then it is true.
C30_OnlyExactAnyIsAny ==
    (q.pc = "done" /\ ProvidedMetrics # {} /\ q.logic # "any")
        => (q.result <=> \A m \in ProvidedMetrics : Meets(m))

\* mode "ANY" with the points threshold met and the assists threshold missed:
\* the line does not qualify, although mode "any" would accept it
C30_Witness ==
    /\ q.pc = "done"
    /\ q.logic = "ANY"
    /\ q.pts_thr = Some(20) /\ q.ast_thr = Some(10)
    /\ q.pts = 25 /\ q.ast = 4
    /\ q.result = FALSE
    /\ qualifies(q.pts, q.ast, q.reb, q.pts_thr, q.ast_thr, q.reb_thr, "any")

\* an unrecognised mode behaves as all
C30_Unrecognised ==
    /\ q.pc = "done"
    /\ q.logic = "either"
    /\ q.pts_thr = Some(30) /\ q.ast_thr = Some(5) /\ q.reb_thr = Absent
    /\ q.pts = 30 /\ q.ast = 4
    /\ q.result = FALSE

-----------------------------------------------------------------------------
(* Sequencing and shape of one fetch_boxscores call, checked under Spec *)

\* C23: within one call each adapter is invoked at most once, in the order of
\* the provider list; an adapter is invoked only when every adapter before it
\* has completed without a valid batch, and the loop is at its next provider
\* only after the invocation before it is over: no two are ever in progress.
C23_SequentialNoRetry ==
    pc \in {"loop", "returned"} =>
        /\ \A i, j \in 1..Len(invoked) : invoked[i] = invoked[j] => i = j
        /\ Len(invoked) <= Len(sources)
        /\ \A j \in 1..Len(invoked) : invoked[j] = sources[j]
        /\ \A j \in 1..(Len(invoked) - 1) : ~Wins(invoked[j])
        /\ pc = "loop" => Len(invoked) = idx - 1
        /\ (pc = "returned" /\ ~result.success) => Len(invoked) = Len(sources)

\* the first provider raised, was not retried, and the second one was invoked
C23_Witness ==
    /\ pc = "returned"
    /\ adapters["NBA_API"].kind = "raise"
    /\ invoked = <<"NBA_API", "ESPN_API">>
    /\ result.success
    /\ result.source = "ESPN_API"

\* C26: a returned result has success=true iff its source is set iff it has
\* records; a successful result's records pass validate_boxscores (required
\* fields, pts in 0..100, reb in 0..40, ast in 0..30) and its source is a
\* known provider name.
C26_ResultShape ==
    pc = "returned" =>
        /\ result.success <=> result.source # NoneVal
        /\ result.success <=> result.boxscores # <<>>
        /\ result.success =>
              /\ result.source \in KnownNames
              /\ validate_boxscores(result.boxscores)
              /\ \A k \in 1..Len(result.boxscores) :
                    /\ HasRequiredFields(result.boxscores[k])
                    /\ WithinBounds(result.boxscores[k])

\* a success after an out-of-bounds batch of the first provider
C26_Witness ==
    /\ pc = "returned"
    /\ result.success
    /\ result.source = "ESPN_API"
    /\ result.boxscores # <<>>
    /\ adapters["NBA_API"] = Returns(<<GoodRecord1("NBA_API"), OutOfBoundsRecord("NBA_API")>>)

\* C28: persist_boxscores is invoked in a call iff the call succeeds, exactly
\* once, with the winner's batch and name, and before the result is returned;
\* an empty or invalid batch and the batch of a provider that did not win are
\* never persisted.
C28_PersistOnlyTheWinner ==
    /\ pc = "returned" =>
          persisted = IF result.success
                      THEN <<[source |-> result.source, boxscores |-> result.boxscores]>>
                      ELSE <<>>
    /\ pc = "loop" => persisted = <<>>
    /\ \A k \in 1..Len(persisted) :
          /\ persisted[k].boxscores # <<>>
          /\ validate_boxscores(persisted[k].boxscores)
          /\ persisted[k].boxscores = adapters[persisted[k].source].batch

\* the loser's invalid batch was not persisted, the winner's batch was, once,
\* although the file system refused the write
C28_Witness ==
    /\ pc = "returned"
    /\ adapters["NBA_API"] = Returns(<<GoodRecord1("NBA_API"), NoAstRecord("NBA_API")>>)
    /\ result.success
    /\ failAt = "raw"
    /\ persisted = <<[source |-> "ESPN_API", boxscores |-> adapters["ESPN_API"].batch]>>

-----------------------------------------------------------------------------
(* fantasy.fantasy_sync: the cache, the disk and the calls working on them *)

\* syncs started in one run of the process
MaxSyncs == 2

\* the request threads of the process
Threads == {"t1", "t2"}

FantasyTableNames == <<"teams", "rosters", "matchups", "free_agents", "settings">>

\* what the client returns to sync number id: every table carries the number
FetchedData(id) ==
    [teams |-> [sync |-> id, rows |-> 2],
     rosters |-> [sync |-> id, rows |-> 3],
     matchups |-> [sync |-> id, rows |-> IF id = 1 THEN 0 ELSE 1],
     free_agents |-> [sync |-> id, rows |-> 1],
     settings |-> [sync |-> id, rows |-> 1]]

\* _fantasy_cache at import time: no timestamp, an empty dict as data
EmptyCache == [timestamp |-> <<>>, data |-> <<>>]

\* the calls of the client, in order; each of them can raise
FetchSteps == <<"create_client", "get_league_settings", "get_teams", "get_rosters",
                "get_matchups", "get_free_agents">>

\* the disk writes of the inner try block, in order
SaveSteps == <<"mkdir", "teams.csv", "rosters.csv", "matchups.csv", "free_agents.csv",
               "league_settings.json">>

\* data/fantasy: absent, without a date directory, or with one and its files
NoFiles == [teams |-> FALSE, rosters |-> FALSE, matchups |-> FALSE, free_agents |-> FALSE,
            settings |-> FALSE]

FantasyDisks ==
    {[state |-> "absent", files |-> NoFiles],
     [state |-> "empty", files |-> NoFiles],
     [state |-> "dated",
      files |-> [NoFiles EXCEPT !.teams = TRUE, !.rosters = TRUE, !.settings = TRUE]]}

\* the files present after the writes before position k of SaveSteps
\* (k = Len(SaveSteps) + 1: every write done); empty tables are not written
saved_upto(diskv, data, k) ==
    IF k <= 1 THEN diskv
    ELSE [state |-> "dated",
          files |-> [teams |-> k > 2 \/ diskv.files.teams,
                     rosters |-> k > 3 \/ diskv.files.rosters,
                     matchups |-> (k > 4 /\ data.matchups.rows > 0) \/ diskv.files.matchups,
                     free_agents |-> (k > 5 /\ data.free_agents.rows > 0)
                                     \/ diskv.files.free_agents,
                     settings |-> k > 6 \/ diskv.files.settings]]

IdleThread ==
    [pc |-> "idle", kind |-> "none", id |-> 0, status |-> NoneVal, errors |-> <<>>,
     counts |-> <<>>, stored |-> <<>>, save_failed |-> NoneVal, log_failed |-> FALSE,
     got |-> <<>>, got_from |-> NoneVal, exc |-> NoneVal]

\* result at the start of sync_fantasy_data
initial_sync_counts == [teams |-> 0, rosters |-> 0, matchups |-> 0, free_agents |-> 0]

\* the counts written to result as the tables are fetched, up to the failing
\* call at position k of FetchSteps (k = Len(FetchSteps) + 1: none failed)
counts_upto(data, k) ==
    [teams |-> IF k > 3 THEN data.teams.rows ELSE 0,
     rosters |-> IF k > 4 THEN data.rosters.rows ELSE 0,
     matchups |-> IF k > 5 THEN data.matchups.rows ELSE 0,
     free_agents |-> IF k > 6 THEN data.free_agents.rows ELSE 0]

\* a cache filled table by table as the fetches come in
cache_on_failure_eager(cache, data, k) ==
    IF k > 3 THEN [cache EXCEPT !.data = <<data>>] ELSE cache

\* the cache when a fetch raised at position k: nothing has been stored yet
cache_on_failure(cache, data, k) == cache

\* the new data merged into the dict in place: settings of the first sync stay
cache_data_in_place(cache, data) ==
    IF cache.data = <<>> THEN <<data>>
    ELSE <<[data EXCEPT !.settings = cache.data[1].settings]>>

\* _fantasy_cache["data"] = {...}: one new dict replaces the old one
cache_data(cache, data) == <<data>>

\* a sync that fails when a disk write fails
sync_status_strict(save_failed) == IF save_failed THEN "failed" ELSE "success"

\* result["status"] = "success" after the inner try block, whatever it did
sync_status(save_failed) == "success"

\* a table as get_latest_fantasy_data loads it from the date directory: the
\* file's content, or an empty DataFrame when the file is missing
loaded_table(present) ==
    IF present THEN [sync |-> 0, rows |-> 1] ELSE [sync |-> 0, rows |-> 0]

loaded_from_disk(diskv) ==
    [teams |-> loaded_table(diskv.files.teams),
     rosters |-> loaded_table(diskv.files.rosters),
     matchups |-> loaded_table(diskv.files.matchups),
     free_agents |-> loaded_table(diskv.files.free_agents),
     settings |-> loaded_table(FALSE)]

\* the read requests: one of the three table endpoints (teams, rosters and
\* matchups have the same handler but for the table's name), or the report
ReadKinds == {"table", "report"}

InitFantasy ==
    /\ fan \in [cache : {EmptyCache}, disk : FantasyDisks, syncs : {0},
                th : {[t \in Threads |-> IdleThread]}]
    /\ CtlIdle
    /\ calls = 0
    /\ disk = EmptyDisk
    /\ vbatch = <<>> /\ vpc = "done" /\ vresult = FALSE
    /\ q = Off /\ api = Off /\ mrg = Off /\ nz = Off /\ out = Off

FantasyFrame == UNCHANGED <<ctlVars, valVars, q, api, mrg, nz, out>>

\* sync_fantasy_data is entered with the result preset to failed
entered_sync(th, kind, id) ==
    [th EXCEPT !.pc = "fetch", !.kind = kind, !.id = id, !.status = "failed",
               !.counts = <<initial_sync_counts>>]

\* POST /api/fantasy/sync arrives
StartSync ==
    /\ \E t \in Threads :
        /\ fan.th[t].pc = "idle"
        /\ fan.syncs < MaxSyncs
        /\ fan' = [fan EXCEPT !.syncs = @ + 1,
                              !.th[t] = entered_sync(@, "sync", fan.syncs + 1)]
    /\ FantasyFrame

\* GET /api/fantasy/teams, rosters or matchups, or GET /api/fantasy/report, arrives
StartRead ==
    /\ \E t \in Threads, kind \in ReadKinds :
        /\ fan.th[t].pc = "idle"
        /\ fan' = [fan EXCEPT !.th[t] = [@ EXCEPT !.pc = "check", !.kind = kind]]
    /\ FantasyFrame

\* the client calls of the outer try block: one of them raises, or none does
Fetch ==
    /\ \E t \in Threads, k \in 1..(Len(FetchSteps) + 1) :
        /\ fan.th[t].pc = "fetch"
        /\ LET data == FetchedData(fan.th[t].id)
               cache1 == cache_on_failure(fan.cache, data, k)
           IN IF k <= Len(FetchSteps)
              THEN fan' = [fan EXCEPT
                       !.cache = cache1,
                       !.th[t] = [@ EXCEPT
                           !.pc = "log",
                           !.counts = <<counts_upto(data, k)>>,
                           !.errors = <<"Sync failed: " \o FetchSteps[k]>>,
                           !.stored = IF cache1 = fan.cache THEN <<>> ELSE cache1.data]]
              ELSE fan' = [fan EXCEPT
                       !.th[t] = [@ EXCEPT !.pc = "store_timestamp",
                                           !.counts = <<counts_upto(data, k)>>]]
    /\ FantasyFrame

\* _fantasy_cache["timestamp"] = ...
StoreTimestamp ==
    /\ \E t \in Threads :
        /\ fan.th[t].pc = "store_timestamp"
        /\ fan' = [fan EXCEPT !.cache.timestamp = <<fan.th[t].id>>,
                              !.th[t].pc = "store_data"]
    /\ FantasyFrame

\* _fantasy_cache["data"] = {...}
StoreData ==
    /\ \E t \in Threads :
        /\ fan.th[t].pc = "store_data"
        /\ LET data == cache_data(fan.cache, FetchedData(fan.th[t].id))
           IN fan' = [fan EXCEPT !.cache.data = data,
                                 !.th[t] = [@ EXCEPT !.pc = "save", !.stored = data]]
    /\ FantasyFrame

\* the inner try block: the writes up to the one the file system refuses
Save ==
    /\ \E t \in Threads, k \in 1..(Len(SaveSteps) + 1) :
        /\ fan.th[t].pc = "save"
        /\ fan' = [fan EXCEPT
               !.disk = saved_upto(@, FetchedData(fan.th[t].id), k),
               !.th[t] = [@ EXCEPT
                   !.pc = "log",
                   !.save_failed = IF k <= Len(SaveSteps) THEN SaveSteps[k] ELSE NoneVal,
                   !.status = sync_status(k <= Len(SaveSteps))]]
    /\ FantasyFrame

\* the finally block: the sync log is written, or the write fails silently
\* (nothing ever reads logs/fantasy, so its files are not part of the state);
\* then sync_fantasy_data returns: to the route handler, or to
\* get_latest_fantasy_data, which hands out the cache or raises
Log ==
    /\ \E t \in Threads, failed \in BOOLEAN :
        /\ fan.th[t].pc = "log"
        /\ fan' = [fan EXCEPT !.th[t] =
               IF @.kind = "sync" THEN [@ EXCEPT !.pc = "done", !.log_failed = failed]
               ELSE IF @.status = "success" /\ fan.cache.data # <<>>
               THEN [@ EXCEPT !.pc = "done", !.log_failed = failed,
                              !.got = fan.cache.data, !.got_from = "cache"]
               ELSE [@ EXCEPT !.pc = "done", !.log_failed = failed,
                              !.exc = "FileNotFoundError"]]
    /\ FantasyFrame

\* get_latest_fantasy_data: if _fantasy_cache["data"]
CheckCache ==
    /\ \E t \in Threads :
        /\ fan.th[t].pc = "check"
        /\ fan' = [fan EXCEPT !.th[t].pc =
                       IF fan.cache.data # <<>> THEN "return_cached" ELSE "disk"]
    /\ FantasyFrame

\* return _fantasy_cache["data"]
ReturnCached ==
    /\ \E t \in Threads :
        /\ fan.th[t].pc = "return_cached"
        /\ fan' = [fan EXCEPT !.th[t] = [@ EXCEPT !.pc = "done", !.got = fan.cache.data,
                                                  !.got_from = "cache"]]
    /\ FantasyFrame

\* no cache: without a date directory sync_fantasy_data is called, otherwise
\* the files of the latest date directory are loaded
ReadDisk ==
    /\ \E t \in Threads :
        /\ fan.th[t].pc = "disk"
        /\ IF fan.disk.state \in {"absent", "empty"}
           THEN /\ fan.syncs < MaxSyncs
                /\ fan' = [fan EXCEPT !.syncs = @ + 1,
                                      !.th[t] = entered_sync(@, @.kind, fan.syncs + 1)]
           ELSE fan' = [fan EXCEPT !.th[t] = [@ EXCEPT !.pc = "done",
                                                  !.got = <<loaded_from_disk(fan.disk)>>,
                                                  !.got_from = "disk"]]
    /\ FantasyFrame

\* the response is sent and the thread is free again
Finish ==
    /\ \E t \in Threads :
        /\ fan.th[t].pc = "done"
        /\ fan' = [fan EXCEPT !.th[t] = IdleThread]
    /\ FantasyFrame

NextFantasy ==
    \/ StartSync
    \/ StartRead
    \/ Fetch
    \/ StoreTimestamp
    \/ StoreData
    \/ Save
    \/ Log
    \/ CheckCache
    \/ ReturnCached
    \/ ReadDisk
    \/ Finish

SpecFantasy == InitFantasy /\ [][NextFantasy]_vars

-----------------------------------------------------------------------------
(* Claims about the fantasy cache, checked under SpecFantasy *)

SyncPositions == {"fetch", "store_timestamp", "store_data", "save", "log"}

\* C22: the cache is changed only by an explicit sync trigger: a read request
\* (teams, rosters, matchups, report) never runs sync_fantasy_data and never
\* stores anything in the cache, whatever the cache and the disk hold.
C22_ReadsNeverSync ==
    \A t \in Threads :
        fan.th[t].kind \in ReadKinds =>
            /\ fan.th[t].pc \notin SyncPositions
            /\ fan.th[t].stored = <<>>

\* a read request found neither cache nor date directory, ran a sync and left
\* the cache filled; no sync request was ever made
C22_ReadFilledCache ==
    \E t \in Threads :
        /\ fan.th[t].kind = "table"
        /\ fan.th[t].pc = "done"
        /\ fan.th[t].stored = <<FetchedData(1)>>
        /\ fan.cache.data = <<FetchedData(1)>>
        /\ fan.syncs = 1

\* a complete set of tables, all of one sync
OfOneSync(data) ==
    /\ DOMAIN data = {FantasyTableNames[k] : k \in 1..Len(FantasyTableNames)}
    /\ \E id \in 1..MaxSyncs :
          \A k \in 1..Len(FantasyTableNames) : data[FantasyTableNames[k]].sync = id

\* C25: the cache's data is replaced wholesale: whatever the interleaving of
\* syncs and reads, the data a read gets from the cache is the complete set of
\* tables of one sync, never a mixture of two syncs and never a partial set.
C25_CacheReadsAreOfOneSync ==
    /\ fan.cache.data # <<>> => OfOneSync(fan.cache.data[1])
    /\ \A t \in Threads :
          fan.th[t].got_from = "cache" =>
              /\ Len(fan.th[t].got) = 1
              /\ OfOneSync(fan.th[t].got[1])

\* a read got the first sync's data from the cache while the second sync has
\* written its timestamp and not yet its data
C25_Witness ==
    \E t, u \in Threads :
        /\ fan.th[t].kind \in ReadKinds
        /\ fan.th[t].got_from = "cache"
        /\ fan.th[t].got = <<FetchedData(1)>>
        /\ fan.th[u].pc = "store_data"
        /\ fan.th[u].id = 2
        /\ fan.cache.timestamp = <<2>>

\* C27: a sync whose client creation or fetch raised returns status failed
\* with a non-empty errors list and has stored nothing: the cache never holds
\* the data of a sync that reported failed, and what an earlier successful
\* sync cached is still there.
C27_FailedSyncLeavesCache ==
    \A t \in Threads :
        (fan.th[t].pc = "done" /\ fan.th[t].status = "failed") =>
            /\ fan.th[t].errors # <<>>
            /\ fan.th[t].stored = <<>>
            /\ fan.cache.data # <<>> => fan.cache.data[1].teams.sync # fan.th[t].id
            /\ fan.cache.timestamp # <<fan.th[t].id>>

\* the second sync failed at get_rosters; the cache still holds the first
C27_Witness ==
    \E t \in Threads :
        /\ fan.th[t].pc = "done"
        /\ fan.th[t].kind = "sync"
        /\ fan.th[t].id = 2
        /\ fan.th[t].status = "failed"
        /\ fan.th[t].errors = <<"Sync failed: get_rosters">>
        /\ fan.cache = [timestamp |-> <<1>>, data |-> <<FetchedData(1)>>]

\* C29: a failed disk write (date directory, CSV exports, settings JSON, sync
\* log) does not fail the sync: when every fetch succeeded the status is
\* success, the counts are those of the fetched tables and the fetched data
\* has been stored in the cache, whatever the disk writes did.
C29_DiskFailureDoesNotFailSync ==
    \A t \in Threads :
        (fan.th[t].pc = "done" /\ fan.th[t].id > 0 /\ fan.th[t].errors = <<>>) =>
            /\ fan.th[t].status = "success"
            /\ fan.th[t].counts =
                  <<[n \in {"teams", "rosters", "matchups", "free_agents"} |->
                        FetchedData(fan.th[t].id)[n].rows]>>
            /\ fan.th[t].stored = <<FetchedData(fan.th[t].id)>>
            /\ fan.cache.data # <<>>

\* the file system refused the date directory and the log: success all the
\* same, the cache holds the data and the disk holds nothing
C29_Witness ==
    \E t \in Threads :
        /\ fan.th[t].pc = "done"
        /\ fan.th[t].kind = "sync"
        /\ fan.th[t].save_failed = "mkdir"
        /\ fan.th[t].log_failed
        /\ fan.th[t].status = "success"
        /\ fan.cache.data = <<FetchedData(fan.th[t].id)>>
        /\ fan.disk.state = "absent"

-----------------------------------------------------------------------------
(* sys.stdout under concurrent /api/stats and /api/boxscore handlers *)

\* requests handled in one run of the process
MaxHandled == 3

\* the stream sys.stdout is bound to when the process starts; the n-th
\* io.StringIO() made by a handler is the stream n
OriginalStdout == 0

RedirectingHandlers == {"get_stats", "get_boxscore"}

IdleHandler == [pc |-> "idle", handler |-> NoneVal, old_stdout |-> <<>>, raised |-> FALSE]

InitStdout ==
    /\ out = [stdout |-> OriginalStdout, made |-> 0, started |-> 0,
              th |-> [t \in Threads |-> IdleHandler]]
    /\ CtlIdle
    /\ calls = 0
    /\ disk = EmptyDisk
    /\ vbatch = <<>> /\ vpc = "done" /\ vresult = FALSE
    /\ q = Off /\ api = Off /\ mrg = Off /\ nz = Off /\ fan = Off

StdoutFrame == UNCHANGED <<ctlVars, valVars, q, api, mrg, nz, fan>>

\* a request arrives and a free thread parses its parameters; get_boxscore
\* answers 400 before it touches sys.stdout when neither game_id nor date is
\* given
Enter ==
    /\ \E t \in Threads, h \in RedirectingHandlers, rejected \in BOOLEAN :
        /\ out.th[t].pc = "idle"
        /\ out.started < MaxHandled
        /\ rejected => h = "get_boxscore"
        /\ out' = [out EXCEPT !.started = @ + 1,
                              !.th[t] = [IdleHandler EXCEPT
                                  !.pc = IF rejected THEN "respond" ELSE "save",
                                  !.handler = h]]
    /\ StdoutFrame

\* old_stdout = sys.stdout
SaveStdout ==
    /\ \E t \in Threads :
        /\ out.th[t].pc = "save"
        /\ out' = [out EXCEPT !.th[t] = [@ EXCEPT !.pc = "redirect",
                                                  !.old_stdout = <<out.stdout>>]]
    /\ StdoutFrame

\* sys.stdout = io.StringIO()
Redirect ==
    /\ \E t \in Threads :
        /\ out.th[t].pc = "redirect"
        /\ out' = [out EXCEPT !.made = @ + 1,
                              !.stdout = out.made + 1,
                              !.th[t].pc = "try"]
    /\ StdoutFrame

\* the try block: the fetch returns or raises
TryBlock ==
    /\ \E t \in Threads, raised \in BOOLEAN :
        /\ out.th[t].pc = "try"
        /\ out' = [out EXCEPT !.th[t] = [@ EXCEPT !.pc = "finally", !.raised = raised]]
    /\ StdoutFrame

\* finally: sys.stdout = old_stdout
Restore ==
    /\ \E t \in Threads :
        /\ out.th[t].pc = "finally"
        /\ out' = [out EXCEPT !.stdout = out.th[t].old_stdout[1],
                              !.th[t].pc = "respond"]
    /\ StdoutFrame

\* the response (the result, or the error of the outer except clause) is
\* sent and the thread is free again
Leave ==
    /\ \E t \in Threads :
        /\ out.th[t].pc = "respond"
        /\ out' = [out EXCEPT !.th[t] = IdleHandler]
    /\ StdoutFrame

NextStdout ==
    \/ Enter
    \/ SaveStdout
    \/ Redirect
    \/ TryBlock
    \/ Restore
    \/ Leave

SpecStdout == InitStdout /\ [][NextStdout]_vars

-----------------------------------------------------------------------------
(* Claims about request independence, checked under SpecStdout *)

AllRequestsFinished == \A t \in Threads : out.th[t].pc = "idle"

\* C24: requests are independent: for any interleaving of concurrent
\* /api/stats and /api/boxscore requests, once all of them have finished
\* sys.stdout is the stream that was in place before any of them started.
C24_StdoutRestored ==
    AllRequestsFinished => out.stdout = OriginalStdout

\* two overlapping requests have finished and sys.stdout is bound to the
\* buffer of the first of them
C24_StdoutLeftRedirected ==
    /\ AllRequestsFinished
    /\ out.started = 2
    /\ out.stdout = 1

====
